---- MODULE Spec2Model ----
(***************************************************************************)
(* Connection state machine of the RaikeShacks API server                  *)
(* (web_server/app.py, web_server/models/connection.py,                    *)
(* web_server/models/chat.py) over a MongoDB-like document store.          *)
(*                                                                         *)
(* Every request handler is an asyncio coroutine: each `await` on the     *)
(* store or on an external collaborator is a point where other requests   *)
(* run.  A handler is therefore modelled as a chain of atomic steps, one   *)
(* per awaited store operation, with the handler's locals kept in the      *)
(* request's record in `calls`.                                            *)
(*                                                                         *)
(* Conventions                                                             *)
(*   - a string (UID, connection_id) is the sequence of its code points;   *)
(*   - Optional[T] is a sequence of at most one T (<<>> is None);          *)
(*   - a timestamp is a number of minutes, NoTime is None;                 *)
(*   - a float score in [0,1] is an integer number of thousandths, so      *)
(*     match_percentage = round(score * 100, 1) is held in tenths of a     *)
(*     percent.                                                            *)
(***************************************************************************)
EXTENDS Integers, Sequences, FiniteSets, TLC

(* ------------------------------ bounds --------------------------------- *)

\* requests that may be in flight in one behaviour
MaxCalls == 3
\* the clock advances in steps of TickMinutes, at most MaxTicks times
MaxTicks == 3
TickMinutes == 30
\* longest UID fed to make_connection_id in the pairing-key specification
MaxUidLen == 2
\* requests in one behaviour of the specification that mixes all handlers
MaxMixedCalls == 2
\* requests in one behaviour of the specification with deletions and edits
MaxLifecycleCalls == 2
\* largest `limit` of a match query
MaxLimit == 3
\* most skills a generated profile possesses, and needs
MaxSkills == 2

(* ------------------------- program constants --------------------------- *)

\* app.py:300 / app.py:399  `match_percentage >= 60`, `< 60`
MatchThreshold == 60
\* app.py:407  timedelta(hours=1), in minutes
CooldownMinutes == 60
\* similarity.py:127-130  Weights() defaults, in thousandths
WComplementarity == 650
WFocus == 200
WIndustry == 150

NoTime == -1
Calls == 1..MaxCalls

(* ------------------------------ strings -------------------------------- *)

\* code points of the characters UIDs are built from: '-', '_', 'a'
Underscore == 95
UidChars == {45, 95, 97}

RECURSIVE StrLess(_, _)
\* Python's str.__lt__: lexicographic order on code points
StrLess(s, t) ==
    IF t = <<>> THEN FALSE
    ELSE IF s = <<>> THEN TRUE
    ELSE IF Head(s) # Head(t) THEN Head(s) < Head(t)
    ELSE StrLess(Tail(s), Tail(t))

\* str.isspace on the ASCII range
Whitespace == {9, 10, 11, 12, 13, 28, 29, 30, 31, 32}

RECURSIVE lstrip(_)
lstrip(s) == IF s # <<>> /\ Head(s) \in Whitespace THEN lstrip(Tail(s)) ELSE s

RECURSIVE rstrip(_)
rstrip(s) ==
    IF s # <<>> /\ s[Len(s)] \in Whitespace THEN rstrip(SubSeq(s, 1, Len(s) - 1)) ELSE s

\* str.strip()
strip(s) == rstrip(lstrip(s))

\* str.lower() on the ASCII range
lower(s) == [i \in DOMAIN s |-> IF s[i] \in 65..90 THEN s[i] + 32 ELSE s[i]]

\* sorted(set of str): ascending in code-point order
RECURSIVE sorted(_)
sorted(names) ==
    IF names = {} THEN <<>>
    ELSE LET least == CHOOSE x \in names : \A y \in names \ {x} : StrLess(x, y)
         IN <<least>> \o sorted(names \ {least})

\* the pair left in argument order
sorted2_unsorted(x, y) == <<x, y>>

\* sorted([x, y]): stable ascending sort of a two-element list
sorted2(x, y) == IF StrLess(y, x) THEN <<y, x>> ELSE <<x, y>>

\* the ID joined in argument order
make_connection_id_unsorted(uid_a, uid_b) == uid_a \o <<Underscore>> \o uid_b

\* models/connection.py make_connection_id: a, b = sorted(...); f"{a}_{b}"
make_connection_id(uid_a, uid_b) ==
    LET s == sorted2(uid_a, uid_b) IN s[1] \o <<Underscore>> \o s[2]

\* the room ID joined in argument order
make_room_id_unsorted(uid_a, uid_b) == uid_a \o <<Underscore>> \o uid_b

\* models/chat.py make_room_id
make_room_id(uid_a, uid_b) ==
    LET s == sorted2(uid_a, uid_b) IN s[1] \o <<Underscore>> \o s[2]

(* ------------------------------ users ---------------------------------- *)

UA == <<97>>
UB == <<98>>
UC == <<97, 98>>
Users == {UA, UB, UC}

(* ------------------------------ scoring -------------------------------- *)
(* services/similarity.py.  Sub-scores are thousandths, the weighted total  *)
(* is millionths (weight in thousandths times sub-score in thousandths).   *)

RECURSIVE SumSeq(_)
SumSeq(s) == IF s = <<>> THEN 0 ELSE Head(s) + SumSeq(Tail(s))

RECURSIVE ISqrtFrom(_, _)
ISqrtFrom(n, r) == IF (r + 1) * (r + 1) > n THEN r ELSE ISqrtFrom(n, r + 1)

\* math.sqrt at the model's resolution: floor(sqrt(n * 10^6)) thousandths,
\* computed from floor(sqrt(n)) and refined digit by digit
RECURSIVE SqrtDigits(_, _, _)
SqrtDigits(n, r, k) ==
    \* r = floor(sqrt(n) * 10^j); add k more decimal digits
    IF k = 0 THEN r
    ELSE LET base == r * 10
             d == CHOOSE x \in 0..9 :
                    /\ (base + x) * (base + x) <= n * 100
                    /\ (base + x + 1) * (base + x + 1) > n * 100
         IN SqrtDigits(n * 100, base + d, k - 1)

SqrtMilli(n) == SqrtDigits(n, ISqrtFrom(n, 0), 3)

\* the cosine with vectors of no magnitude taken as parallel
_cosine_sim_unguarded(a, b) ==
    IF Len(a) = 0 \/ Len(b) = 0 \/ Len(a) # Len(b) THEN 0
    ELSE LET dot == SumSeq([i \in 1..Len(a) |-> a[i] * b[i]])
             sq_a == SumSeq([i \in 1..Len(a) |-> a[i] * a[i]])
             sq_b == SumSeq([i \in 1..Len(b) |-> b[i] * b[i]])
         IN IF sq_a = 0 \/ sq_b = 0 THEN 1000
            ELSE (dot * 1000000) \div SqrtMilli(sq_a * sq_b)

\* similarity.py:20-28
_cosine_sim(a, b) ==
    IF Len(a) = 0 \/ Len(b) = 0 \/ Len(a) # Len(b) THEN 0
    ELSE LET dot == SumSeq([i \in 1..Len(a) |-> a[i] * b[i]])
             sq_a == SumSeq([i \in 1..Len(a) |-> a[i] * a[i]])
             sq_b == SumSeq([i \in 1..Len(b) |-> b[i] * b[i]])
         IN IF sq_a = 0 \/ sq_b = 0 THEN 0
            ELSE (dot * 1000000) \div SqrtMilli(sq_a * sq_b)

\* similarity.py:30-33
_jaccard_sim(set_a, set_b) ==
    IF set_a = {} \/ set_b = {} THEN 0
    ELSE (Cardinality(set_a \cap set_b) * 1000) \div Cardinality(set_a \cup set_b)

Range(s) == {s[i] : i \in DOMAIN s}

\* similarity.py:90, models/student.py:13-18
FOCUS_AREA_ORDER == <<"startup", "research", "side_project", "open_source", "looking">>

\* a list[Any] vector of models/student.py:72-77: numbers (semantic
\* embedding, components as integers of one unit) or strings (keyword fallback)
NumVec(items) == [kind |-> "num", items |-> items]
StrVec(items) == [kind |-> "str", items |-> items]
EmptyVec == NumVec(<<>>)

\* the names compared as they were entered
normalize_name_raw(name) == name

\* similarity.py:109-110: s.name.strip().lower()
normalize_name(name) == lower(strip(name))

\* similarity.py:100-111
vectorize_profile(profile) ==
    [possessed_vec |-> IF profile.rag # <<>> THEN profile.rag[1].possessed_vector
                       ELSE EmptyVec,
     needed_vec    |-> IF profile.rag # <<>> THEN profile.rag[1].needed_vector
                       ELSE EmptyVec,
     focus_vec     |-> [i \in 1..Len(FOCUS_AREA_ORDER) |->
                          IF FOCUS_AREA_ORDER[i] \in profile.focus_areas THEN 1 ELSE 0],
     possessed_names |-> {normalize_name(name) : name \in Range(profile.skills.possessed)},
     needed_names    |-> {normalize_name(name) : name \in Range(profile.skills.needed)}]

\* Python round(x, 1) of a percentage held as millionths of the score:
\* nearest tenth of a percent, ties to even
RoundTenths(micro) ==
    LET q == micro \div 1000
        r == micro % 1000
    IN IF r > 500 THEN q + 1
       ELSE IF r < 500 THEN q
       ELSE IF q % 2 = 0 THEN q ELSE q + 1

\* similarity.py:165-166: the industry tags, empty without a project
Industries(profile) ==
    IF profile.project # <<>> THEN profile.project[1].industry ELSE {}

\* similarity.py:140-145
use_semantic(query_vecs, cand_vecs) ==
    /\ Len(query_vecs.possessed_vec.items) > 0
    /\ Len(cand_vecs.possessed_vec.items) > 0
    /\ query_vecs.possessed_vec.kind = "num"
    /\ cand_vecs.possessed_vec.kind = "num"

\* similarity.py:151-157: _jaccard_sim(set(need), set(have)) of two vectors;
\* a number never equals a string, so vectors of different kinds share no
\* element
keyword_match(need, have) ==
    IF need.kind = have.kind
    THEN _jaccard_sim(Range(need.items), Range(have.items))
    ELSE 0

\* the mean weighted towards the first comparison
mean_of_directions_skewed(help_they_give_you, help_you_give_them) ==
    (600 * help_they_give_you + 400 * help_you_give_them) \div 1000

\* similarity.py:159: 0.5 * help_they_give_you + 0.5 * help_you_give_them
mean_of_directions(help_they_give_you, help_you_give_them) ==
    (500 * help_they_give_you + 500 * help_you_give_them) \div 1000

\* similarity.py:126-130, the default Weights(), thousandths
DefaultWeights ==
    [complementarity |-> WComplementarity, focus |-> WFocus, industry |-> WIndustry]

\* similarity.py:132-187 (the cosine branch multiplies the components, which
\* Python does for numbers only)
compute_match(query_profile, query_vecs, cand_profile, cand_vecs, weights) ==
    LET semantic == use_semantic(query_vecs, cand_vecs)
        help_they_give_you ==
            IF semantic
            THEN _cosine_sim(query_vecs.needed_vec.items, cand_vecs.possessed_vec.items)
            ELSE keyword_match(query_vecs.needed_vec, cand_vecs.possessed_vec)
        help_you_give_them ==
            IF semantic
            THEN _cosine_sim(cand_vecs.needed_vec.items, query_vecs.possessed_vec.items)
            ELSE keyword_match(cand_vecs.needed_vec, query_vecs.possessed_vec)
        complementarity == mean_of_directions(help_they_give_you, help_you_give_them)
        focus_overlap == _cosine_sim(query_vecs.focus_vec, cand_vecs.focus_vec)
        industry_overlap == _jaccard_sim(Industries(query_profile), Industries(cand_profile))
    IN [score |-> weights.complementarity * complementarity
                    + weights.focus * focus_overlap
                    + weights.industry * industry_overlap,
        complementarity    |-> complementarity,
        help_they_give_you |-> help_they_give_you,
        help_you_give_them |-> help_you_give_them,
        focus_overlap      |-> focus_overlap,
        industry_overlap   |-> industry_overlap,
        matched_skills     |-> sorted(query_vecs.needed_names \cap cand_vecs.possessed_names),
        skills_you_offer   |-> sorted(cand_vecs.needed_names \cap query_vecs.possessed_names)]

\* app.py:275-278
MatchPercentage(profile1, profile2) ==
    RoundTenths(compute_match(profile1, vectorize_profile(profile1),
                              profile2, vectorize_profile(profile2),
                              DefaultWeights).score)

\* similarity.py:206: [p for p in profiles if p.uid != query_uid]
candidates(profiles_list, query_uid) ==
    SelectSeq(profiles_list, LAMBDA p : p.uid # query_uid)

\* the threshold taken as exclusive
passes_exclusive(ms, threshold) == ms.score > threshold

\* similarity.py:213: ms.score >= threshold, both in millionths
passes(ms, threshold) == ms.score >= threshold

\* the results left in candidate order
sort_by_score_unsorted(results) == results

\* similarity.py:216: results.sort(key=score, reverse=True), a stable sort:
\* the first result of the highest score, then the others sorted
RECURSIVE sort_by_score(_)
sort_by_score(results) ==
    IF results = <<>> THEN <<>>
    ELSE LET first == CHOOSE i \in DOMAIN results :
                        /\ \A j \in DOMAIN results :
                              results[j].ms.score <= results[i].ms.score
                        /\ \A j \in 1..(i - 1) :
                              results[j].ms.score < results[i].ms.score
             others == [j \in 1..(Len(results) - 1) |->
                          IF j < first THEN results[j] ELSE results[j + 1]]
         IN <<results[first]>> \o sort_by_score(others)

\* results[:limit]
truncate(results, limit) ==
    SubSeq(results, 1, IF limit < Len(results) THEN limit ELSE Len(results))

\* similarity.py:208-214: the scored candidates that pass the threshold
scored(query, cands, threshold, weights) ==
    LET query_vecs == vectorize_profile(query.profile)
        all == [i \in DOMAIN cands |->
                  [uid |-> cands[i].uid,
                   ms |-> compute_match(query.profile, query_vecs, cands[i].profile,
                                        vectorize_profile(cands[i].profile), weights)]]
    IN SelectSeq(all, LAMBDA r : passes(r.ms, threshold))

\* the candidate count taken after filtering by the threshold
find_matches_count_kept(profiles_list, query_uid, limit, threshold, weights) ==
    LET found == SelectSeq(profiles_list, LAMBDA p : p.uid = query_uid)
    IN IF found = <<>>
       THEN [query_profile |-> <<>>, total_candidates |-> 0, ranked |-> <<>>]
       ELSE LET cands == candidates(profiles_list, query_uid)
                results == scored(found[1], cands, threshold, weights)
            IN [query_profile |-> <<found[1]>>,
                total_candidates |-> Len(results),
                ranked |-> truncate(sort_by_score(results), limit)]

\* similarity.py:191-217; profiles_list is what cursor.to_list returned, in
\* natural order, each document with its uid
find_matches(profiles_list, query_uid, limit, threshold, weights) ==
    LET found == SelectSeq(profiles_list, LAMBDA p : p.uid = query_uid)
    IN IF found = <<>>
       THEN [query_profile |-> <<>>, total_candidates |-> 0, ranked |-> <<>>]
       ELSE LET cands == candidates(profiles_list, query_uid)
                results == scored(found[1], cands, threshold, weights)
            IN [query_profile |-> <<found[1]>>,
                total_candidates |-> Len(cands),
                ranked |-> truncate(sort_by_score(results), limit)]

\* Python round(x, 4) of a score held as millionths: ties to even
Round4(micro) ==
    LET q == micro \div 100
        r == micro % 100
    IN 100 * (IF r > 50 THEN q + 1
              ELSE IF r < 50 THEN q
              ELSE IF q % 2 = 0 THEN q ELSE q + 1)

\* skill names as entered, code points
Python == <<80, 121, 116, 104, 111, 110>>
React == <<82, 101, 97, 99, 116>>
Figma == <<70, 105, 103, 109, 97>>
Go == <<71, 111>>

\* models/student.py:67-69
Skills(possessed, needed) == [possessed |-> possessed, needed |-> needed]

\* models/student.py:72-77; `indexed` is history: the skills and the project
\* generate_profile_embeddings (similarity.py:67-86) made the vectors from
Rag(possessed_vector, needed_vector, skills, project) ==
    [possessed_vector |-> possessed_vector, needed_vector |-> needed_vector,
     indexed |-> [skills |-> skills, project |-> project]]

\* models/student.py:98-107: a stored profile whose vectors were generated
\* from its skills and project
StudentProfile(focus_areas, project, skills, possessed_vector, needed_vector) ==
    [focus_areas |-> focus_areas, project |-> project, skills |-> skills,
     rag |-> <<Rag(possessed_vector, needed_vector, skills, project)>>]

\* stored profile contents the model draws from (test_connections.py:12-36
\* builds profiles of this shape; the vectors are keyword lists)
ProfileBuilder ==
    StudentProfile({"startup"}, <<[industry |-> {"AI/ML"}]>>,
                   Skills(<<Python>>, <<React>>),
                   StrVec(<<"python">>), StrVec(<<"react">>))
ProfileDesigner ==
    StudentProfile({"startup"}, <<[industry |-> {"AI/ML"}]>>,
                   Skills(<<React>>, <<Python>>),
                   StrVec(<<"react">>), StrVec(<<"python">>))
\* no project, no skills, no embeddings
ProfileBare ==
    [focus_areas |-> {"research"}, project |-> <<>>,
     skills |-> Skills(<<>>, <<>>), rag |-> <<>>]
\* offers what the builder needs and needs what the builder lacks, shares
\* one of two industries with the builder: match exactly 60.0%
ProfileAtThreshold ==
    StudentProfile({"startup"}, <<[industry |-> {"AI/ML", "Fintech"}]>>,
                   Skills(<<React>>, <<Go>>),
                   StrVec(<<"react">>), StrVec(<<"go">>))
\* the same with one of three industries shared: match 57.5%
ProfileBelowThreshold ==
    StudentProfile({"startup"}, <<[industry |-> {"AI/ML", "Fintech", "Health"}]>>,
                   Skills(<<React>>, <<Go>>),
                   StrVec(<<"react">>), StrVec(<<"go">>))
ProfileCatalogue ==
    {ProfileBuilder, ProfileDesigner, ProfileBare,
     ProfileAtThreshold, ProfileBelowThreshold}

\* profiles with embeddings from the provider (similarity.py:79-86), the
\* components as integers: two dimensions, three dimensions, all zero,
\* and a bundle whose needed text got no embedding
ProfileEmbedded ==
    StudentProfile({"startup"}, <<[industry |-> {"AI/ML"}]>>,
                   Skills(<<Python>>, <<React>>),
                   NumVec(<<1, 0>>), NumVec(<<3, 4>>))
ProfileEmbeddedPeer ==
    StudentProfile({"research"}, <<[industry |-> {"Fintech"}]>>,
                   Skills(<<React, Figma>>, <<Python>>),
                   NumVec(<<3, 4>>), NumVec(<<1, 0>>))
ProfileEmbeddedWide ==
    StudentProfile({"startup", "research"}, <<>>,
                   Skills(<<React>>, <<Python>>),
                   NumVec(<<1, 0, 0>>), NumVec(<<0, 1, 0>>))
ProfileEmbeddedZero ==
    StudentProfile({"looking"}, <<[industry |-> {}]>>,
                   Skills(<<Go>>, <<Go>>),
                   NumVec(<<0, 0>>), NumVec(<<0, 0>>))
ProfileEmbeddedHalf ==
    StudentProfile({"startup"}, <<[industry |-> {"AI/ML"}]>>,
                   Skills(<<React>>, <<Python>>),
                   NumVec(<<0, 1>>), EmptyVec)
\* needs the opposite of what ProfileEmbedded offers: an embedding's
\* components are of either sign
ProfileEmbeddedOpposed ==
    StudentProfile({"open_source"}, <<>>,
                   Skills(<<Go>>, <<Figma>>),
                   NumVec(<<0, 1>>), NumVec(<<-1, 0>>))
\* nothing entered and no embeddings
ProfileEmpty ==
    [focus_areas |-> {}, project |-> <<>>,
     skills |-> Skills(<<>>, <<>>), rag |-> <<>>]
\* nothing entered, indexed: both texts are empty and the provider is sent
\* "none" for each (similarity.py:56, 69-80), so the two vectors are equal
ProfileEmptyIndexed ==
    StudentProfile({}, <<>>, Skills(<<>>, <<>>),
                   NumVec(<<3, 4>>), NumVec(<<3, 4>>))
VectorProfiles ==
    ProfileCatalogue \cup {ProfileEmbedded, ProfileEmbeddedPeer, ProfileEmbeddedWide,
                           ProfileEmbeddedZero, ProfileEmbeddedHalf,
                           ProfileEmbeddedOpposed, ProfileEmpty, ProfileEmptyIndexed}

\* a name entered in lower case between blanks
Padded(name) == <<32>> \o lower(name) \o <<32>>

\* profiles without embeddings, their skills any lists of up to MaxSkills
\* of these names
SkillNames == {React, Padded(React), Python, Figma}
SkillLists == {sorted(names) : names \in {S \in SUBSET SkillNames : Cardinality(S) <= MaxSkills}}
SkillProfiles ==
    {[focus_areas |-> {"startup"}, project |-> <<>>,
      skills |-> Skills(possessed, needed), rag |-> <<>>] :
        possessed \in SkillLists, needed \in SkillLists}

(* ------------------------------- state --------------------------------- *)

VARIABLES
    uniqueIndex,   \* whether the deployment's `connections` collection has a
                   \* unique index on connection_id: upsert_connection
                   \* expects one (it catches DuplicateKeyError), connect_db
                   \* creates none, so either may be the case
    profiles,      \* student_profiles: uid -> Optional[profile]
    connections,   \* connections collection, in natural (insertion) order
    chat_rooms,    \* chat_rooms collection, in natural (insertion) order;
                   \* no code creates or expects a unique index on room_id
    next_id,       \* next ObjectId the driver generates for insert_one
    now,           \* datetime.now(timezone.utc), minutes
    calls,         \* the requests: handler, position and locals
    sent,          \* notifications and real-time events handed to the dispatchers
    failed,        \* those of them whose send returned False or raised
    active_connections,  \* ConnectionManager.active_connections: uid ->
                   \* Optional[WebSocket], a socket named by its session number
    service_account,     \* GOOGLE_SERVICE_ACCOUNT_JSON of the deployment:
                   \* "absent", "valid" or "malformed" (not JSON)
    summarized,    \* requests that invoked generate_connection_summaries
    fn_in,         \* arguments of a pure function under evaluation
    fn_out         \* its result, <<>> before evaluation

vars == <<uniqueIndex, profiles, connections, chat_rooms, next_id, now,
          calls, sent, failed, active_connections, service_account,
          summarized, fn_in, fn_out>>

storeVars == <<uniqueIndex, profiles, connections, chat_rooms, next_id>>
fnVars == <<fn_in, fn_out>>
wireVars == <<active_connections, service_account>>

(* ------------------------------- store --------------------------------- *)

\* position of the first document with this connection_id, 0 if none
FirstIndex(docs, connection_id) ==
    IF \E i \in DOMAIN docs : docs[i].connection_id = connection_id
    THEN CHOOSE i \in DOMAIN docs :
            /\ docs[i].connection_id = connection_id
            /\ \A j \in 1..(i - 1) : docs[j].connection_id # connection_id
    ELSE 0

\* db.connections.find_one({"connection_id": ...})
find_one(docs, connection_id) ==
    LET i == FirstIndex(docs, connection_id)
    IN IF i = 0 THEN <<>> ELSE <<docs[i]>>

\* {"$set": fields} applied to one document
apply_set(doc, fields) ==
    [f \in DOMAIN doc |-> IF f \in DOMAIN fields THEN fields[f] ELSE doc[f]]

\* db.connections.find_one_and_update / update_one with $set: the first
\* matching document is changed atomically
update_first(docs, connection_id, fields) ==
    LET i == FirstIndex(docs, connection_id)
    IN [j \in DOMAIN docs |-> IF j = i THEN apply_set(docs[j], fields) ELSE docs[j]]

\* models/connection.py:57-63
get_connection(connection_id) == find_one(connections, connection_id)

\* models/student.py:135-141
get_student(uid) == profiles[uid]

\* db.connections.insert_one raises DuplicateKeyError
DuplicateKey(connection_id) ==
    uniqueIndex /\ FirstIndex(connections, connection_id) # 0

\* db.chat_rooms.find_one({"room_id": ...})
FirstRoomIndex(room_id) ==
    IF \E i \in DOMAIN chat_rooms : chat_rooms[i].room_id = room_id
    THEN CHOOSE i \in DOMAIN chat_rooms :
            /\ chat_rooms[i].room_id = room_id
            /\ \A j \in 1..(i - 1) : chat_rooms[j].room_id # room_id
    ELSE 0

find_room(room_id) ==
    LET i == FirstRoomIndex(room_id)
    IN IF i = 0 THEN <<>> ELSE <<chat_rooms[i]>>

(* ------------------------------ requests ------------------------------- *)

IdleCall ==
    [op |-> "none", pc |-> "idle", status |-> 0,
     body_uid1 |-> <<>>, body_uid2 |-> <<>>,
     uid1 |-> <<>>, uid2 |-> <<>>, connection_id |-> <<>>,
     profile1 |-> <<>>, profile2 |-> <<>>, match_percentage |-> 0,
     connection |-> <<>>, summaries |-> <<>>, room |-> <<>>,
     field |-> "", found |-> <<>>, room_ids |-> {}, participant_uids |-> <<>>,
     \* history: set when this request's insert_one stored the record (with
     \* the _id it got), when its update made both flags true, the clock, the
     \* finished requests and the users with a stored profile at its arrival
     created |-> FALSE, created_id |-> 0, completed |-> FALSE, started_at |-> 0,
     preceded |-> {}, stored_at_start |-> {}]

\* a request arrives: the clock and the requests that have already returned
Arrive(call) ==
    [call EXCEPT !.started_at = now,
                 !.preceded = {d \in Calls : calls[d].pc = "done"},
                 !.stored_at_start = {u \in DOMAIN profiles : profiles[u] # <<>>}]

\* requests are interchangeable: they are taken in order
CanStart(c) ==
    /\ calls[c].op = "none"
    /\ c > 1 => calls[c - 1].op # "none"

Running(c, op, pc) == calls[c].op = op /\ calls[c].pc = pc

\* the request returns with an HTTP status
Return(call, status) == [call EXCEPT !.pc = "done", !.status = status]

\* summaries["..."] of services/summary_generator.py: all None on failure
SummariesEmpty ==
    [uid1_summary |-> <<>>, uid2_summary |-> <<>>, notification_message |-> <<>>]
SummariesFull ==
    [uid1_summary |-> <<"about uid1">>, uid2_summary |-> <<"about uid2">>,
     notification_message |-> <<"You matched!">>]
SummaryOutcomes == {SummariesEmpty, SummariesFull}

Event(c, type, to) == [call |-> c, type |-> type, to |-> to]

(* -- services/websocket_manager.py and services/push_notification.py ---- *)

\* websocket_manager.py:16-17
disconnect(registry, uid) == [registry EXCEPT ![uid] = <<>>]

\* websocket_manager.py:19-29: False when the user has no socket or
\* send_json raises
send_to_user(registry, uid, raises) == registry[uid] # <<>> /\ ~raises

\* the registry left as it was by a send that raised
after_send_to_user_keep(registry, uid, raises) == registry

\* the registry after send_to_user: a socket whose send_json raised is dropped
after_send_to_user(registry, uid, raises) ==
    IF registry[uid] # <<>> /\ raises THEN disconnect(registry, uid) ELSE registry

\* websocket_manager.py:31-34: the registry after send_to_user for each of
\* the uids; `raised` are the users whose send_json raises
broadcast_to_users(registry, uids, raised) ==
    [u \in DOMAIN registry |->
        IF u \in uids THEN after_send_to_user(registry, u, u \in raised)[u]
        ELSE registry[u]]

\* the recipients whose send_json can raise: those with a socket
CanRaise(uids) == {u \in uids : active_connections[u] # <<>>}

\* push_notification.py:16-21, 159: json.loads raises on a value that is
\* not JSON, outside of the try block of send_push_notification
PushRaises == service_account = "malformed"

\* push_notification.py:160-209: the sets of recipients for which
\* send_push_notification can return False: all of them without credentials;
\* with credentials any (no profile, no fcm_token, no token, FCM refuses)
PushRefusals(uids) == IF service_account = "valid" THEN SUBSET uids ELSE {uids}

\* the pushes a handler's loop over the uids attempts: the first one only
\* when it raises
PushAttempts(c, type, uids) ==
    {Event(c, type, uids[i]) : i \in IF PushRaises THEN DOMAIN uids \cap {1} ELSE DOMAIN uids}

\* the status a handler returns after its pushes
AfterPush(status) == IF PushRaises THEN 500 ELSE status

\* the real-time sends of ws_type to ws_to and the pushes of push_type to
\* push_to of one handler, the real-time sends first or last
Dispatch(c, ws_type, ws_to, push_type, push_to, ws_first) ==
    \E raised \in SUBSET CanRaise(Range(ws_to)),
       refused \in PushRefusals(Range(push_to)) :
        LET ws_reached == ws_first \/ push_to = <<>> \/ ~PushRaises
            ws_uids == IF ws_reached THEN Range(ws_to) ELSE {}
            ws_events == {Event(c, ws_type, u) : u \in ws_uids}
            ws_failed == {e \in ws_events :
                            ~send_to_user(active_connections, e.to, e.to \in raised)}
            push_events == PushAttempts(c, push_type, push_to)
            push_failed == {e \in push_events : PushRaises \/ e.to \in refused}
        IN /\ sent' = sent \cup ws_events \cup push_events
           /\ failed' = failed \cup ws_failed \cup push_failed
           /\ active_connections' =
                 broadcast_to_users(active_connections, ws_uids, raised)
           /\ UNCHANGED service_account

(* ------------------- POST /connections (app.py:256-327) ---------------- *)

\* the threshold taken as exclusive
AfterUpsert_exclusive(match_percentage) ==
    IF match_percentage > MatchThreshold * 10 THEN "summaries" ELSE "push"

AfterUpsert(match_percentage) ==
    IF match_percentage >= MatchThreshold * 10 THEN "summaries" ELSE "push"

\* the handler without the pre-check of lines 262-265
create_connection_no_precheck(c, a, b) ==
    /\ CanStart(c)
    /\ LET s == sorted2(a, b)
       IN calls' = [calls EXCEPT ![c] =
                      [Arrive(IdleCall) EXCEPT
                          !.op = "create_connection",
                          !.body_uid1 = a, !.body_uid2 = b,
                          !.uid1 = s[1], !.uid2 = s[2],
                          !.connection_id = make_connection_id(s[1], s[2]),
                          !.pc = "get_student1"]]
    /\ UNCHANGED <<storeVars, now, sent, failed, wireVars, summarized, fnVars>>

\* app.py:259-265: canonical ID, then the pre-check get_connection
create_connection(c, a, b) ==
    /\ CanStart(c)
    /\ LET s == sorted2(a, b)
           connection_id == make_connection_id(s[1], s[2])
           existing == get_connection(connection_id)
           call == [Arrive(IdleCall) EXCEPT !.op = "create_connection",
                                    !.body_uid1 = a, !.body_uid2 = b,
                                    !.uid1 = s[1], !.uid2 = s[2],
                                    !.found = existing,
                                    !.connection_id = connection_id]
       IN calls' = [calls EXCEPT ![c] =
                      IF existing # <<>>
                      THEN Return([call EXCEPT !.connection = existing], 201)
                      ELSE [call EXCEPT !.pc = "get_student1"]]
    /\ UNCHANGED <<storeVars, now, sent, failed, wireVars, summarized, fnVars>>

\* app.py:268
create_connection_get_student1(c) ==
    /\ Running(c, "create_connection", "get_student1")
    /\ calls' = [calls EXCEPT ![c].profile1 = get_student(calls[c].uid1),
                              ![c].pc = "get_student2"]
    /\ UNCHANGED <<storeVars, now, sent, failed, wireVars, summarized, fnVars>>

\* a missing profile replaced by an empty one instead of failing
create_connection_get_student2_default(c) ==
    /\ Running(c, "create_connection", "get_student2")
    /\ LET profile1 == IF calls[c].profile1 = <<>> THEN <<ProfileBare>>
                       ELSE calls[c].profile1
           fetched == get_student(calls[c].uid2)
           profile2 == IF fetched = <<>> THEN <<ProfileBare>> ELSE fetched
       IN calls' = [calls EXCEPT ![c] =
                      [@ EXCEPT !.profile2 = profile2,
                                !.match_percentage =
                                    MatchPercentage(profile1[1], profile2[1]),
                                !.pc = "insert_one"]]
    /\ UNCHANGED <<storeVars, now, sent, failed, wireVars, summarized, fnVars>>

\* app.py:269-278
create_connection_get_student2(c) ==
    /\ Running(c, "create_connection", "get_student2")
    /\ LET profile1 == calls[c].profile1
           profile2 == get_student(calls[c].uid2)
       IN calls' = [calls EXCEPT ![c] =
                      IF profile1 = <<>> \/ profile2 = <<>>
                      THEN Return([@ EXCEPT !.profile2 = profile2], 404)
                      ELSE [@ EXCEPT !.profile2 = profile2,
                                     !.match_percentage =
                                         MatchPercentage(profile1[1], profile2[1]),
                                     !.pc = "insert_one"]]
    /\ UNCHANGED <<storeVars, now, sent, failed, wireVars, summarized, fnVars>>

\* the record created with the first participant's acceptance already set
conn_doc_accepted(call, oid) ==
    [_id |-> oid,
     connection_id |-> call.connection_id,
     uid1 |-> call.uid1,
     uid2 |-> call.uid2,
     uid1_accepted |-> TRUE,
     uid2_accepted |-> FALSE,
     match_percentage |-> call.match_percentage,
     uid1_summary |-> <<>>,
     uid2_summary |-> <<>>,
     notification_message |-> <<>>,
     created_at |-> now,
     updated_at |-> NoTime,
     last_nearby_notified_at |-> NoTime]

\* app.py:280-294
conn_doc(call, oid) ==
    [_id |-> oid,
     connection_id |-> call.connection_id,
     uid1 |-> call.uid1,
     uid2 |-> call.uid2,
     uid1_accepted |-> FALSE,
     uid2_accepted |-> FALSE,
     match_percentage |-> call.match_percentage,
     uid1_summary |-> <<>>,
     uid2_summary |-> <<>>,
     notification_message |-> <<>>,
     created_at |-> now,
     updated_at |-> NoTime,
     last_nearby_notified_at |-> NoTime]

\* the insert done as delete-then-insert: an existing record is replaced
upsert_connection_replace(c) ==
    /\ Running(c, "create_connection", "insert_one")
    /\ LET doc == conn_doc(calls[c], next_id)
           kept == SelectSeq(connections,
                             LAMBDA d : d.connection_id # calls[c].connection_id)
       IN /\ connections' = Append(kept, doc)
          /\ next_id' = next_id + 1
          /\ calls' = [calls EXCEPT
                         ![c].connection = <<doc>>,
                         ![c].created = TRUE,
                         ![c].created_id = next_id,
                         ![c].pc = AfterUpsert(calls[c].match_percentage)]
    /\ UNCHANGED <<uniqueIndex, profiles, chat_rooms, now, sent, failed, wireVars, summarized, fnVars>>

\* models/connection.py:92-98: insert_one, DuplicateKeyError caught at 99
upsert_connection(c) ==
    /\ Running(c, "create_connection", "insert_one")
    /\ IF DuplicateKey(calls[c].connection_id)
       THEN /\ calls' = [calls EXCEPT ![c].pc = "find_existing"]
            /\ UNCHANGED <<connections, next_id>>
       ELSE LET doc == conn_doc(calls[c], next_id)
            IN /\ connections' = Append(connections, doc)
               /\ next_id' = next_id + 1
               /\ calls' = [calls EXCEPT
                              ![c].connection = <<doc>>,
                              ![c].created = TRUE,
                              ![c].created_id = next_id,
                              ![c].pc = AfterUpsert(calls[c].match_percentage)]
    /\ UNCHANGED <<uniqueIndex, profiles, chat_rooms, now, sent, failed, wireVars, summarized, fnVars>>

\* models/connection.py:99-103: Connection(**existing) raises on None
upsert_connection_find(c) ==
    /\ Running(c, "create_connection", "find_existing")
    /\ LET existing == find_one(connections, calls[c].connection_id)
       IN calls' = [calls EXCEPT ![c] =
                      IF existing = <<>>
                      THEN Return(@, 500)
                      ELSE [@ EXCEPT !.connection = existing,
                                     !.pc = AfterUpsert(calls[c].match_percentage)]]
    /\ UNCHANGED <<storeVars, now, sent, failed, wireVars, summarized, fnVars>>

\* generation failure taken as fatal: the request fails instead of going on
create_connection_summaries_abort(c) ==
    /\ Running(c, "create_connection", "summaries")
    /\ \E summaries \in SummaryOutcomes :
          calls' = [calls EXCEPT
                      ![c] = IF summaries.uid1_summary # <<>>
                             THEN [@ EXCEPT !.summaries = <<summaries>>,
                                            !.pc = "update_summaries"]
                             ELSE Return([@ EXCEPT !.summaries = <<summaries>>], 500)]
    /\ summarized' = summarized \cup {c}
    /\ UNCHANGED <<storeVars, now, sent, failed, wireVars, fnVars>>

\* app.py:300-304, services/summary_generator.py:9-84
create_connection_summaries(c) ==
    /\ Running(c, "create_connection", "summaries")
    /\ \E summaries \in SummaryOutcomes :
          calls' = [calls EXCEPT
                      ![c].summaries = <<summaries>>,
                      ![c].pc = IF summaries.uid1_summary # <<>>
                                THEN "update_summaries" ELSE "broadcast"]
    /\ summarized' = summarized \cup {c}
    /\ UNCHANGED <<storeVars, now, sent, failed, wireVars, fnVars>>

\* the summaries written back on the request's own copy of the record
summaries_set_replace(call) ==
    [call.connection[1] EXCEPT
        !.uid1_summary = call.summaries[1].uid1_summary,
        !.uid2_summary = call.summaries[1].uid2_summary,
        !.notification_message = call.summaries[1].notification_message,
        !.updated_at = now]

\* models/connection.py:153-160: the $set of the summary fields
summaries_set(call) ==
    [uid1_summary |-> call.summaries[1].uid1_summary,
     uid2_summary |-> call.summaries[1].uid2_summary,
     notification_message |-> call.summaries[1].notification_message,
     updated_at |-> now]

\* models/connection.py:142-166, called at app.py:305-310
update_connection_summaries(c) ==
    /\ Running(c, "create_connection", "update_summaries")
    /\ LET fields == summaries_set(calls[c])
       IN /\ connections' = update_first(connections, calls[c].connection_id, fields)
          /\ calls' = [calls EXCEPT
                         ![c].connection = find_one(connections', calls[c].connection_id),
                         ![c].pc = "broadcast"]
    /\ UNCHANGED <<uniqueIndex, profiles, chat_rooms, next_id, now, sent, failed, wireVars, summarized, fnVars>>

\* app.py:312-317: connection.model_dump raises when connection is None
create_connection_broadcast(c) ==
    /\ Running(c, "create_connection", "broadcast")
    /\ IF calls[c].connection = <<>>
       THEN /\ calls' = [calls EXCEPT ![c] = Return(@, 500)]
            /\ UNCHANGED <<sent, failed, wireVars>>
       ELSE /\ Dispatch(c, "match_found", <<calls[c].uid1, calls[c].uid2>>,
                        "", <<>>, TRUE)
            /\ calls' = [calls EXCEPT ![c].pc = "push"]
    /\ UNCHANGED <<storeVars, now, summarized, fnVars>>

\* app.py:323-327
create_connection_push(c) ==
    /\ Running(c, "create_connection", "push")
    /\ Dispatch(c, "", <<>>, "push_new_match", <<calls[c].uid1, calls[c].uid2>>, TRUE)
    /\ calls' = [calls EXCEPT ![c] = Return(@, AfterPush(201))]
    /\ UNCHANGED <<storeVars, now, summarized, fnVars>>

CreateConnectionSteps(c) ==
    \/ create_connection_get_student1(c)
    \/ create_connection_get_student2(c)
    \/ upsert_connection(c)
    \/ upsert_connection_find(c)
    \/ create_connection_summaries(c)
    \/ update_connection_summaries(c)
    \/ create_connection_broadcast(c)
    \/ create_connection_push(c)

(* ------- POST /connections/{connection_id}/accept (app.py:350-388) ----- *)

BothAccepted(doc) == doc.uid1_accepted /\ doc.uid2_accepted

\* the participant test reduced to `uid == uid1`, anyone else taken as uid2
accept_connection_endpoint_any_uid(c, connection_id, uid) ==
    /\ CanStart(c)
    /\ LET conn == find_one(connections, connection_id)
           call == [Arrive(IdleCall) EXCEPT !.op = "accept", !.body_uid1 = uid,
                                    !.found = conn,
                                    !.connection_id = connection_id]
       IN calls' = [calls EXCEPT ![c] =
                      IF conn = <<>> THEN Return(call, 404)
                      ELSE IF uid = conn[1].uid1
                      THEN [call EXCEPT !.field = "uid1_accepted",
                                        !.pc = "find_one_and_update"]
                      ELSE [call EXCEPT !.field = "uid2_accepted",
                                        !.pc = "find_one_and_update"]]
    /\ UNCHANGED <<storeVars, now, sent, failed, wireVars, summarized, fnVars>>

\* models/connection.py:106-119: find_one, then the participant position
accept_connection_endpoint(c, connection_id, uid) ==
    /\ CanStart(c)
    /\ LET conn == find_one(connections, connection_id)
           call == [Arrive(IdleCall) EXCEPT !.op = "accept", !.body_uid1 = uid,
                                    !.found = conn,
                                    !.connection_id = connection_id]
       IN calls' = [calls EXCEPT ![c] =
                      IF conn = <<>> THEN Return(call, 404)
                      ELSE IF uid = conn[1].uid1
                      THEN [call EXCEPT !.field = "uid1_accepted",
                                        !.pc = "find_one_and_update"]
                      ELSE IF uid = conn[1].uid2
                      THEN [call EXCEPT !.field = "uid2_accepted",
                                        !.pc = "find_one_and_update"]
                      ELSE Return(call, 404)]
    /\ UNCHANGED <<storeVars, now, sent, failed, wireVars, summarized, fnVars>>

\* both flags set by one accept
accept_set_both(call) ==
    [uid1_accepted |-> TRUE, uid2_accepted |-> TRUE, updated_at |-> now]

\* the flag set on the document read at line 109 and written back whole
accept_set_read_modify_write(call) ==
    [call.found[1] EXCEPT ![call.field] = TRUE, !.updated_at = now]

\* models/connection.py:123: {"$set": {field: True, "updated_at": now}}
accept_set(call) ==
    (call.field :> TRUE) @@ [updated_at |-> now]

\* find_one_and_update returning the document as it was before the update
accept_connection_return_before(c) ==
    /\ Running(c, "accept", "find_one_and_update")
    /\ LET before == find_one(connections, calls[c].connection_id)
           after == update_first(connections, calls[c].connection_id,
                                 accept_set(calls[c]))
       IN /\ connections' = after
          /\ calls' = [calls EXCEPT ![c] =
                         IF before = <<>> THEN Return([@ EXCEPT !.connection = <<>>], 404)
                         ELSE [@ EXCEPT !.connection = before,
                                        !.pc = IF BothAccepted(before[1])
                                               THEN "get_or_create_room"
                                               ELSE "notify_other"]]
    /\ UNCHANGED <<uniqueIndex, profiles, chat_rooms, next_id, now, sent, failed, wireVars, summarized, fnVars>>

\* models/connection.py:121-129, then app.py:353-358
accept_connection(c) ==
    /\ Running(c, "accept", "find_one_and_update")
    /\ LET before == find_one(connections, calls[c].connection_id)
           after == update_first(connections, calls[c].connection_id,
                                 accept_set(calls[c]))
           result == find_one(after, calls[c].connection_id)
       IN /\ connections' = after
          /\ calls' = [calls EXCEPT ![c] =
                         IF result = <<>> THEN Return([@ EXCEPT !.connection = <<>>], 404)
                         ELSE [@ EXCEPT !.connection = result,
                                        !.completed = ~BothAccepted(before[1])
                                                        /\ BothAccepted(result[1]),
                                        !.pc = IF BothAccepted(result[1])
                                               THEN "get_or_create_room"
                                               ELSE "notify_other"]]
    /\ UNCHANGED <<uniqueIndex, profiles, chat_rooms, next_id, now, sent, failed, wireVars, summarized, fnVars>>

\* models/chat.py:62-73, called at app.py:360
get_or_create_room(c) ==
    /\ Running(c, "accept", "get_or_create_room")
    /\ LET conn == calls[c].connection[1]
           existing == find_room(make_room_id(conn.uid1, conn.uid2))
       IN calls' = [calls EXCEPT ![c] =
                      IF existing # <<>>
                      THEN [@ EXCEPT !.room = existing, !.pc = "connection_complete"]
                      ELSE [@ EXCEPT !.pc = "insert_room"]]
    /\ UNCHANGED <<storeVars, now, sent, failed, wireVars, summarized, fnVars>>

\* models/chat.py:75-83
get_or_create_room_insert(c) ==
    /\ Running(c, "accept", "insert_room")
    /\ LET conn == calls[c].connection[1]
           doc == [_id |-> next_id,
                   room_id |-> make_room_id(conn.uid1, conn.uid2),
                   participants |-> sorted2(conn.uid1, conn.uid2),
                   created_at |-> now]
       IN /\ chat_rooms' = Append(chat_rooms, doc)
          /\ next_id' = next_id + 1
          /\ calls' = [calls EXCEPT ![c].room = <<doc>>, ![c].pc = "connection_complete"]
    /\ UNCHANGED <<uniqueIndex, profiles, connections, now, sent, failed, wireVars, summarized, fnVars>>

\* app.py:362-374, 388
accept_connection_complete(c) ==
    /\ Running(c, "accept", "connection_complete")
    /\ LET conn == calls[c].connection[1]
       IN Dispatch(c, "connection_complete", <<conn.uid1, conn.uid2>>,
                   "push_connection_complete", <<conn.uid1, conn.uid2>>, TRUE)
    /\ calls' = [calls EXCEPT ![c] = Return(@, AfterPush(200))]
    /\ UNCHANGED <<storeVars, now, summarized, fnVars>>

\* other_uid computed the wrong way round: the accepting user is notified
accept_connection_notify_self(c) ==
    /\ Running(c, "accept", "notify_other")
    /\ LET conn == calls[c].connection[1]
           other_uid == IF calls[c].body_uid1 = conn.uid1 THEN conn.uid1 ELSE conn.uid2
       IN Dispatch(c, "connection_accepted", <<other_uid>>,
                   "push_someone_accepted", <<other_uid>>, TRUE)
    /\ calls' = [calls EXCEPT ![c] = Return(@, AfterPush(200))]
    /\ UNCHANGED <<storeVars, now, summarized, fnVars>>

\* app.py:356, 375-388
accept_connection_notify_other(c) ==
    /\ Running(c, "accept", "notify_other")
    /\ LET conn == calls[c].connection[1]
           other_uid == IF calls[c].body_uid1 = conn.uid1 THEN conn.uid2 ELSE conn.uid1
       IN Dispatch(c, "connection_accepted", <<other_uid>>,
                   "push_someone_accepted", <<other_uid>>, TRUE)
    /\ calls' = [calls EXCEPT ![c] = Return(@, AfterPush(200))]
    /\ UNCHANGED <<storeVars, now, summarized, fnVars>>

AcceptSteps(c) ==
    \/ accept_connection(c)
    \/ get_or_create_room(c)
    \/ get_or_create_room_insert(c)
    \/ accept_connection_complete(c)
    \/ accept_connection_notify_other(c)

(* ------------------ POST /chat/rooms (app.py:435-439) ------------------ *)

\* app.py:436-439 with models/chat.py:64-65: a list that does not hold
\* exactly two IDs raises ValueError before any read, returned as 400
create_room(c, participant_uids) ==
    /\ CanStart(c)
    /\ LET call == [Arrive(IdleCall) EXCEPT !.op = "create_room",
                                            !.participant_uids = participant_uids]
       IN calls' = [calls EXCEPT ![c] =
                      IF Len(participant_uids) # 2 THEN Return(call, 400)
                      ELSE [call EXCEPT !.uid1 = participant_uids[1],
                                        !.uid2 = participant_uids[2],
                                        !.pc = "find_room"]]
    /\ UNCHANGED <<storeVars, now, sent, failed, wireVars, summarized, fnVars>>

\* models/chat.py:67-73
create_room_find(c) ==
    /\ Running(c, "create_room", "find_room")
    /\ LET existing == find_room(make_room_id(calls[c].uid1, calls[c].uid2))
       IN calls' = [calls EXCEPT ![c] =
                      IF existing # <<>>
                      THEN Return([@ EXCEPT !.room = existing], 201)
                      ELSE [@ EXCEPT !.pc = "insert_room"]]
    /\ UNCHANGED <<storeVars, now, sent, failed, wireVars, summarized, fnVars>>

\* models/chat.py:75-83
create_room_insert(c) ==
    /\ Running(c, "create_room", "insert_room")
    /\ LET doc == [_id |-> next_id,
                   room_id |-> make_room_id(calls[c].uid1, calls[c].uid2),
                   participants |-> sorted2(calls[c].uid1, calls[c].uid2),
                   created_at |-> now]
       IN /\ chat_rooms' = Append(chat_rooms, doc)
          /\ next_id' = next_id + 1
          /\ calls' = [calls EXCEPT ![c] =
                         Return([@ EXCEPT !.room = <<doc>>, !.created = TRUE], 201)]
    /\ UNCHANGED <<uniqueIndex, profiles, connections, now, sent, failed, wireVars, summarized, fnVars>>

CreateRoomSteps(c) ==
    \/ create_room_find(c)
    \/ create_room_insert(c)

(* ------- POST /connections/{connection_id}/nearby (app.py:391-429) ----- *)

\* the cooldown with the boundary instant still inside the window
InCooldown_inclusive(conn) ==
    /\ conn.last_nearby_notified_at # NoTime
    /\ now - conn.last_nearby_notified_at <= CooldownMinutes

\* app.py:403-408
InCooldown(conn) ==
    /\ conn.last_nearby_notified_at # NoTime
    /\ now - conn.last_nearby_notified_at < CooldownMinutes

\* the handler without the threshold test of lines 398-400
notify_nearby_no_threshold(c, connection_id) ==
    /\ CanStart(c)
    /\ LET conn == get_connection(connection_id)
           call == [Arrive(IdleCall) EXCEPT !.op = "notify_nearby",
                                    !.connection_id = connection_id,
                                    !.connection = conn]
       IN calls' = [calls EXCEPT ![c] =
                      IF conn = <<>> THEN Return(call, 404)
                      ELSE IF InCooldown(conn[1]) THEN Return(call, 200)
                      ELSE [call EXCEPT !.pc = "update_nearby"]]
    /\ UNCHANGED <<storeVars, now, sent, failed, wireVars, summarized, fnVars>>

\* app.py:394-408
notify_nearby(c, connection_id) ==
    /\ CanStart(c)
    /\ LET conn == get_connection(connection_id)
           call == [Arrive(IdleCall) EXCEPT !.op = "notify_nearby",
                                    !.connection_id = connection_id,
                                    !.connection = conn]
       IN calls' = [calls EXCEPT ![c] =
                      IF conn = <<>> THEN Return(call, 404)
                      ELSE IF conn[1].match_percentage < MatchThreshold * 10
                      THEN Return(call, 200)
                      ELSE IF InCooldown(conn[1]) THEN Return(call, 200)
                      ELSE [call EXCEPT !.pc = "update_nearby"]]
    /\ UNCHANGED <<storeVars, now, sent, failed, wireVars, summarized, fnVars>>

\* models/connection.py:132-139, called at app.py:411
update_nearby_notified_at(c) ==
    /\ Running(c, "notify_nearby", "update_nearby")
    /\ connections' = update_first(connections, calls[c].connection_id,
                                   [last_nearby_notified_at |-> now])
    /\ calls' = [calls EXCEPT ![c].pc = "nearby_notify"]
    /\ UNCHANGED <<uniqueIndex, profiles, chat_rooms, next_id, now, sent, failed, wireVars, summarized, fnVars>>

\* app.py:413-429
notify_nearby_send(c) ==
    /\ Running(c, "notify_nearby", "nearby_notify")
    /\ LET conn == calls[c].connection[1]
       IN Dispatch(c, "reencounter", <<conn.uid1, conn.uid2>>,
                   "push_nearby", <<conn.uid1, conn.uid2>>, FALSE)
    /\ calls' = [calls EXCEPT ![c] = Return(@, AfterPush(200))]
    /\ UNCHANGED <<storeVars, now, summarized, fnVars>>

NearbySteps(c) ==
    \/ update_nearby_notified_at(c)
    \/ notify_nearby_send(c)

(* ----------- DELETE /students/{uid} (app.py:118-126) ------------------- *)

\* db.connections.delete_many({"$or": [{"uid1": uid}, {"uid2": uid}]})
delete_connections_of(docs, uid) ==
    SelectSeq(docs, LAMBDA d : d.uid1 # uid /\ d.uid2 # uid)

\* app.py:120-122, models/student.py:185-189: delete_one on the profile
remove_student(c, uid) ==
    /\ CanStart(c)
    /\ LET call == [Arrive(IdleCall) EXCEPT !.op = "remove_student", !.body_uid1 = uid]
       IN IF profiles[uid] = <<>>
          THEN /\ calls' = [calls EXCEPT ![c] = Return(call, 404)]
               /\ UNCHANGED profiles
          ELSE /\ profiles' = [profiles EXCEPT ![uid] = <<>>]
               /\ calls' = [calls EXCEPT ![c] = [call EXCEPT !.pc = "delete_connections"]]
    /\ UNCHANGED <<uniqueIndex, connections, chat_rooms, next_id, now, sent, failed, wireVars,
                   summarized, fnVars>>

\* app.py:124-126
remove_student_connections(c) ==
    /\ Running(c, "remove_student", "delete_connections")
    /\ connections' = delete_connections_of(connections, calls[c].body_uid1)
    /\ calls' = [calls EXCEPT ![c] = Return(@, 204)]
    /\ UNCHANGED <<uniqueIndex, profiles, chat_rooms, next_id, now, sent, failed, wireVars,
                   summarized, fnVars>>

(* --------- DELETE /students/{uid}/data (app.py:129-150) ----------------- *)

\* app.py:132-134
clear_student_data(c, uid) ==
    /\ CanStart(c)
    /\ LET call == [Arrive(IdleCall) EXCEPT !.op = "clear_student_data",
                                            !.body_uid1 = uid]
       IN calls' = [calls EXCEPT ![c] =
                      IF get_student(uid) = <<>> THEN Return(call, 404)
                      ELSE [call EXCEPT !.pc = "find_rooms"]]
    /\ UNCHANGED <<storeVars, now, sent, failed, wireVars, summarized, fnVars>>

\* app.py:139-142: the rooms whose `participant_uids` field holds the uid
\* (models/chat.py:76-80 stores the two UIDs under `participants`)
rooms_of_participant_uid(uid) ==
    {chat_rooms[i].room_id : i \in
        {j \in DOMAIN chat_rooms :
            /\ "participant_uids" \in DOMAIN chat_rooms[j]
            /\ uid \in Range(chat_rooms[j].participant_uids)}}

\* app.py:139-147: find the rooms, delete their messages, then the rooms
clear_student_data_rooms(c) ==
    /\ calls[c].op = "clear_student_data"
    /\ calls[c].pc \in {"find_rooms", "delete_messages", "delete_rooms"}
    /\ IF calls[c].pc = "find_rooms"
       THEN LET room_ids == rooms_of_participant_uid(calls[c].body_uid1)
            IN /\ calls' = [calls EXCEPT
                              ![c].room_ids = room_ids,
                              ![c].pc = IF room_ids # {} THEN "delete_messages"
                                        ELSE "delete_connections"]
               /\ UNCHANGED chat_rooms
       ELSE IF calls[c].pc = "delete_messages"
       THEN /\ calls' = [calls EXCEPT ![c].pc = "delete_rooms"]
            /\ UNCHANGED chat_rooms
       ELSE /\ chat_rooms' = SelectSeq(chat_rooms,
                                LAMBDA r : r.room_id \notin calls[c].room_ids)
            /\ calls' = [calls EXCEPT ![c].pc = "delete_connections"]
    /\ UNCHANGED <<uniqueIndex, profiles, connections, next_id, now, sent, failed, wireVars,
                   summarized, fnVars>>

\* app.py:149-150
clear_student_data_connections(c) ==
    /\ Running(c, "clear_student_data", "delete_connections")
    /\ connections' = delete_connections_of(connections, calls[c].body_uid1)
    /\ calls' = [calls EXCEPT ![c] = Return(@, 204)]
    /\ UNCHANGED <<uniqueIndex, profiles, chat_rooms, next_id, now, sent, failed, wireVars,
                   summarized, fnVars>>

DeleteSteps(c) ==
    \/ remove_student_connections(c)
    \/ clear_student_data_rooms(c)
    \/ clear_student_data_connections(c)

(* -------------- PUT /students/{uid} (app.py:110-115) -------------------- *)

\* a StudentUpdate body: each field Optional
StudentUpdates ==
    {[focus_areas |-> <<{"startup", "research"}>>, project |-> <<>>],
     [focus_areas |-> <<>>, project |-> <<[industry |-> {"Fintech"}]>>]}

\* models/student.py:149-163: {"$set": changes} with the fields that are set
changes_set(data) ==
    [f \in {g \in {"focus_areas", "project"} : data[g] # <<>>} |->
        IF f = "focus_areas" THEN data.focus_areas[1] ELSE data.project]

\* the update followed by a re-scoring of the user's connections
edit_student_rescoring(c, uid, data) ==
    /\ CanStart(c)
    /\ LET call == [Arrive(IdleCall) EXCEPT !.op = "edit_student", !.body_uid1 = uid]
           changes == changes_set(data)
           updated == [profiles EXCEPT ![uid] = <<apply_set(profiles[uid][1], changes)>>]
           rescored(d) ==
               IF uid \in {d.uid1, d.uid2}
                    /\ updated[d.uid1] # <<>> /\ updated[d.uid2] # <<>>
               THEN [d EXCEPT !.match_percentage =
                                  MatchPercentage(updated[d.uid1][1], updated[d.uid2][1])]
               ELSE d
       IN IF profiles[uid] = <<>>
          THEN /\ calls' = [calls EXCEPT ![c] = Return(call, 404)]
               /\ UNCHANGED <<profiles, connections>>
          ELSE /\ profiles' = updated
               /\ connections' = [i \in DOMAIN connections |-> rescored(connections[i])]
               /\ calls' = [calls EXCEPT ![c] =
                              Return(call, IF "project" \in DOMAIN changes
                                           THEN 500 ELSE 200)]
    /\ UNCHANGED <<uniqueIndex, chat_rooms, next_id, now, sent, failed, wireVars, summarized, fnVars>>

\* models/student.py:144-182: the changes are applied atomically; when the
\* project changed, the un-awaited generate_profile_embeddings coroutine handed
\* to the second $set cannot be encoded and the request fails after the
\* first update
edit_student(c, uid, data) ==
    /\ CanStart(c)
    /\ LET call == [Arrive(IdleCall) EXCEPT !.op = "edit_student", !.body_uid1 = uid]
           changes == changes_set(data)
       IN IF profiles[uid] = <<>>
          THEN /\ calls' = [calls EXCEPT ![c] = Return(call, 404)]
               /\ UNCHANGED profiles
          ELSE /\ profiles' = [profiles EXCEPT
                                ![uid] = <<apply_set(profiles[uid][1], changes)>>]
               /\ calls' = [calls EXCEPT ![c] =
                              Return(call, IF "project" \in DOMAIN changes
                                           THEN 500 ELSE 200)]
    /\ UNCHANGED <<uniqueIndex, connections, chat_rooms, next_id, now, sent, failed, wireVars,
                   summarized, fnVars>>

(* ----------- GET /students/{uid}/matches (app.py:161-217) -------------- *)

\* what db.student_profiles.find({}) returns: the stored profiles in
\* natural order
profile_docs(order) ==
    [i \in DOMAIN order |-> [uid |-> order[i], profile |-> profiles[order[i]][1]]]

\* app.py:174-179: the weights normalized to sum to 1, thousandths
normalize(w) ==
    LET total_weight == w.complementarity + w.focus + w.industry
    IN [complementarity |-> (w.complementarity * 1000) \div total_weight,
        focus |-> (w.focus * 1000) \div total_weight,
        industry |-> (w.industry * 1000) \div total_weight]

\* app.py:187-217: the response body
MatchResponse(uid, result) ==
    [query_uid |-> uid,
     total_candidates |-> result.total_candidates,
     matches |-> [i \in DOMAIN result.ranked |->
                    [uid |-> result.ranked[i].uid,
                     score |-> Round4(result.ranked[i].ms.score),
                     matched_skills |-> result.ranked[i].ms.matched_skills,
                     skills_you_offer |-> result.ranked[i].ms.skills_you_offer]]]

\* an absent query answered like one without candidates
match_student_empty_for_absent ==
    /\ fn_out = <<>>
    /\ LET q == fn_in
       IN fn_out' =
            IF q.w.complementarity + q.w.focus + q.w.industry = 0
            THEN <<[status |-> 400, found |-> <<>>, body |-> <<>>]>>
            ELSE LET result == find_matches(profile_docs(q.order), q.uid, q.limit,
                                            q.threshold, normalize(q.w))
                 IN <<[status |-> 200, found |-> <<result>>,
                       body |-> <<MatchResponse(q.uid, result)>>]>>
    /\ UNCHANGED <<storeVars, now, calls, sent, failed, wireVars, summarized, fn_in>>

\* app.py:161-217: the request is fn_in (uid, limit, threshold, the weights
\* w and the natural order of the collection), the response fn_out
match_student ==
    /\ fn_out = <<>>
    /\ LET q == fn_in
       IN fn_out' =
            IF q.w.complementarity + q.w.focus + q.w.industry = 0
            THEN <<[status |-> 400, found |-> <<>>, body |-> <<>>]>>
            ELSE LET result == find_matches(profile_docs(q.order), q.uid, q.limit,
                                            q.threshold, normalize(q.w))
                 IN IF result.query_profile = <<>>
                    THEN <<[status |-> 404, found |-> <<result>>, body |-> <<>>]>>
                    ELSE <<[status |-> 200, found |-> <<result>>,
                            body |-> <<MatchResponse(q.uid, result)>>]>>
    /\ UNCHANGED <<storeVars, now, calls, sent, failed, wireVars, summarized, fn_in>>

\* the wall clock read by datetime.now(timezone.utc)
Tick ==
    /\ now < MaxTicks * TickMinutes
    /\ now' = now + TickMinutes
    /\ UNCHANGED <<storeVars, calls, sent, failed, wireVars, summarized, fnVars>>

(* --------------------------- initial states ----------------------------- *)

\* nobody is connected to /ws/{uid} and the deployment has no push
\* credentials, as where test_connections.py runs: every send returns False
Undelivered ==
    /\ failed = {}
    /\ active_connections = [u \in Users |-> <<>>]
    /\ service_account = "absent"

\* profiles of UA and UB are stored, UC has none: a complementary pair
\* (match 100%) or two bare profiles (match 20%)
StoredProfiles ==
    {[u \in Users |-> IF u = UA THEN <<pair[1]>>
                      ELSE IF u = UB THEN <<pair[2]>> ELSE <<>>] :
        pair \in {<<ProfileBuilder, ProfileDesigner>>, <<ProfileBare, ProfileBare>>}}

InitCommon ==
    /\ uniqueIndex \in BOOLEAN
    /\ profiles \in StoredProfiles
    /\ chat_rooms = <<>>
    /\ next_id = 1
    /\ now = 0
    /\ calls = [c \in Calls |-> IdleCall]
    /\ sent = {}
    /\ Undelivered
    /\ summarized = {}
    /\ fn_in = <<>>
    /\ fn_out = <<>>

\* a record as an earlier, completed POST /connections left it
ExistingConnection(summaries) ==
    LET request == [IdleCall EXCEPT !.uid1 = UA, !.uid2 = UB,
                                    !.connection_id = make_connection_id(UA, UB),
                                    !.match_percentage =
                                        MatchPercentage(profiles[UA][1], profiles[UB][1]),
                                    !.summaries = <<summaries>>]
        doc == conn_doc(request, 1)
        call == [request EXCEPT !.connection = <<doc>>]
    IN IF doc.match_percentage >= MatchThreshold * 10 /\ summaries.uid1_summary # <<>>
       THEN apply_set(doc, summaries_set(call))
       ELSE doc

InitExisting ==
    /\ uniqueIndex \in BOOLEAN
    /\ profiles \in StoredProfiles
    /\ now = 0
    /\ \E summaries \in SummaryOutcomes :
          connections = <<ExistingConnection(summaries)>>
    /\ chat_rooms = <<>>
    /\ next_id = 2
    /\ calls = [c \in Calls |-> IdleCall]
    /\ sent = {}
    /\ Undelivered
    /\ summarized = {}
    /\ fn_in = <<>>
    /\ fn_out = <<>>

(* ---------- concurrent proposals for one pair, empty collection -------- *)

InitPropose ==
    /\ InitCommon
    /\ connections = <<>>

StartPropose(c) ==
    \E a \in {UA, UB}, b \in {UA, UB} : a # b /\ create_connection(c, a, b)

NextPropose ==
    \E c \in Calls :
        \/ StartPropose(c)
        \/ CreateConnectionSteps(c)

SpecPropose == InitPropose /\ [][NextPropose]_vars

(* --------- proposals naming any two users, the same one twice ---------- *)

\* models/connection.py:38-41: uid1 and uid2 of the body are any strings
StartProposeAny(c) ==
    /\ c <= MaxMixedCalls
    /\ \E a \in Users, b \in Users : create_connection(c, a, b)

NextProposeAny ==
    \E c \in Calls :
        \/ StartProposeAny(c)
        \/ CreateConnectionSteps(c)

SpecProposeAny == InitPropose /\ [][NextProposeAny]_vars

(* ------------- concurrent accepts on an existing connection ------------ *)

StartAccept(c) ==
    \E uid \in Users : accept_connection_endpoint(c, make_connection_id(UA, UB), uid)

NextAccept ==
    \E c \in Calls :
        \/ StartAccept(c)
        \/ AcceptSteps(c)

SpecAccept == InitExisting /\ [][NextAccept]_vars

(* ------- nearby notifications, one request after the other ------------- *)

NoneInFlight == \A c \in Calls : calls[c].pc \in {"idle", "done"}

StartNearby(c) == notify_nearby(c, make_connection_id(UA, UB))

NextNearbySerial ==
    \/ \E c \in Calls : NoneInFlight /\ StartNearby(c)
    \/ \E c \in Calls : NearbySteps(c)
    \/ Tick

SpecNearbySerial == InitExisting /\ [][NextNearbySerial]_vars

(* ------------- all handlers, any interleaving, any clock --------------- *)

Init ==
    \/ InitPropose
    \/ InitExisting

StartAny(c) ==
    /\ c <= MaxMixedCalls
    /\ \/ StartPropose(c)
       \/ StartAccept(c)
       \/ StartNearby(c)

Next ==
    \/ \E c \in Calls :
          \/ StartAny(c)
          \/ CreateConnectionSteps(c)
          \/ AcceptSteps(c)
          \/ NearbySteps(c)
    \/ Tick

Spec == Init /\ [][Next]_vars

(* ---------- accepts naming any connection ID and any user -------------- *)

StartAcceptAny(c) ==
    /\ c <= MaxMixedCalls
    /\ \E connection_id \in {make_connection_id(UA, UB), make_connection_id(UA, UC)},
          uid \in Users :
            accept_connection_endpoint(c, connection_id, uid)

NextAcceptAny ==
    \E c \in Calls :
        \/ StartAcceptAny(c)
        \/ AcceptSteps(c)

SpecAcceptAny == InitExisting /\ [][NextAcceptAny]_vars

(* ------ proposals and nearby requests around the 60% threshold --------- *)

\* the builder paired with profiles matching at 100%, 60.0%, 57.5% and 0%
ThresholdProfiles ==
    {[u \in Users |-> IF u = UA THEN <<ProfileBuilder>>
                      ELSE IF u = UB THEN <<other>> ELSE <<>>] :
        other \in {ProfileDesigner, ProfileAtThreshold, ProfileBelowThreshold,
                   ProfileBare}}

InitThreshold ==
    /\ uniqueIndex \in BOOLEAN
    /\ profiles \in ThresholdProfiles
    /\ connections = <<>>
    /\ chat_rooms = <<>>
    /\ next_id = 1
    /\ now = 0
    /\ calls = [c \in Calls |-> IdleCall]
    /\ sent = {}
    /\ Undelivered
    /\ summarized = {}
    /\ fn_in = <<>>
    /\ fn_out = <<>>

StartThreshold(c) ==
    /\ c <= MaxMixedCalls
    /\ \/ StartPropose(c)
       \/ StartNearby(c)

NextThreshold ==
    \E c \in Calls :
        \/ StartThreshold(c)
        \/ CreateConnectionSteps(c)
        \/ NearbySteps(c)

SpecThreshold == InitThreshold /\ [][NextThreshold]_vars

(* ------- connections while profiles are deleted, cleared, edited ------- *)

StartRemove(c) == \E uid \in Users : remove_student(c, uid)

StartClear(c) == \E uid \in Users : clear_student_data(c, uid)

StartEdit(c) == \E uid \in Users, data \in StudentUpdates : edit_student(c, uid, data)

StartLifecycle(c) ==
    /\ c <= MaxLifecycleCalls
    /\ \/ StartPropose(c)
       \/ StartAccept(c)
       \/ StartNearby(c)
       \/ StartRemove(c)
       \/ StartClear(c)
       \/ StartEdit(c)

NextLifecycle ==
    \E c \in Calls :
        \/ StartLifecycle(c)
        \/ CreateConnectionSteps(c)
        \/ AcceptSteps(c)
        \/ NearbySteps(c)
        \/ DeleteSteps(c)

SpecLifecycle == Init /\ [][NextLifecycle]_vars

(* ---- proposals, accepts and nearby requests whose sends may fail ------ *)

\* UA is connected to /ws/a, UB is not; the push credentials are absent,
\* valid or not JSON; the pair matches at 100%
InitDelivery ==
    /\ uniqueIndex \in BOOLEAN
    /\ profiles = [u \in Users |-> IF u = UA THEN <<ProfileBuilder>>
                                   ELSE IF u = UB THEN <<ProfileDesigner>> ELSE <<>>]
    /\ now = 0
    /\ \/ connections = <<>> /\ next_id = 1
       \/ connections = <<ExistingConnection(SummariesFull)>> /\ next_id = 2
    /\ chat_rooms = <<>>
    /\ calls = [c \in Calls |-> IdleCall]
    /\ sent = {}
    /\ failed = {}
    /\ active_connections = [u \in Users |-> IF u = UA THEN <<1>> ELSE <<>>]
    /\ service_account \in {"absent", "valid", "malformed"}
    /\ summarized = {}
    /\ fn_in = <<>>
    /\ fn_out = <<>>

\* one request after the other
StartDelivery(c) ==
    /\ NoneInFlight
    /\ \/ StartPropose(c)
       \/ StartAccept(c)
       \/ StartNearby(c)

\* the steps of a proposal that runs alone: upsert_connection_find follows
\* a DuplicateKeyError, which takes an insert between the proposal's
\* pre-check and its own insert
CreateConnectionAloneSteps(c) ==
    \/ create_connection_get_student1(c)
    \/ create_connection_get_student2(c)
    \/ upsert_connection(c)
    \/ create_connection_summaries(c)
    \/ update_connection_summaries(c)
    \/ create_connection_broadcast(c)
    \/ create_connection_push(c)

NextDelivery ==
    \E c \in Calls :
        \/ StartDelivery(c)
        \/ CreateConnectionAloneSteps(c)
        \/ AcceptSteps(c)
        \/ NearbySteps(c)

SpecDelivery == InitDelivery /\ [][NextDelivery]_vars

(* ------ accepts that run to completion, their sends failing or not ------ *)

\* every await of an accept returns: a handler that can take a step takes it
AcceptsProgress == \A c \in Calls : WF_vars(AcceptSteps(c))

\* the connection is stored; UA is connected, UB is not, the push
\* credentials are absent, valid or not JSON
InitAcceptLive ==
    /\ InitDelivery
    /\ uniqueIndex = FALSE
    /\ connections # <<>>

SpecAcceptLive == InitAcceptLive /\ [][NextAcceptAny]_vars /\ AcceptsProgress

(* ------- WS /ws/{uid} (app.py:482-490) and nearby broadcasts ----------- *)

\* app.py:483-484: the handler arrives and awaits websocket.accept()
websocket_endpoint(c, uid) ==
    /\ CanStart(c)
    /\ calls' = [calls EXCEPT ![c] =
                   [Arrive(IdleCall) EXCEPT !.op = "websocket", !.body_uid1 = uid,
                                            !.pc = "ws_accept"]]
    /\ UNCHANGED <<storeVars, now, sent, failed, wireVars, summarized, fnVars>>

\* websocket_manager.py:12-14: the session, named by its handler, replaces
\* whatever the registry held for the uid; the handler waits in receive_text
connect(c) ==
    /\ Running(c, "websocket", "ws_accept")
    /\ active_connections' =
          [active_connections EXCEPT ![calls[c].body_uid1] = <<c>>]
    /\ calls' = [calls EXCEPT ![c].pc = "receive"]
    /\ UNCHANGED <<storeVars, now, sent, failed, service_account, summarized, fnVars>>

\* app.py:489-490: receive_text raises WebSocketDisconnect and the handler
\* calls ws_manager.disconnect(uid)
websocket_disconnect(c) ==
    /\ Running(c, "websocket", "receive")
    /\ active_connections' = disconnect(active_connections, calls[c].body_uid1)
    /\ calls' = [calls EXCEPT ![c] = Return(@, 0)]
    /\ UNCHANGED <<storeVars, now, sent, failed, service_account, summarized, fnVars>>

WebsocketSteps(c) ==
    \/ connect(c)
    \/ websocket_disconnect(c)

\* a stored connection matching at 100%, nobody connected, no push
\* credentials
InitSessions ==
    /\ uniqueIndex = FALSE
    /\ profiles = [u \in Users |-> IF u = UA THEN <<ProfileBuilder>>
                                   ELSE IF u = UB THEN <<ProfileDesigner>> ELSE <<>>]
    /\ now = 0
    /\ connections = <<ExistingConnection(SummariesFull)>>
    /\ next_id = 2
    /\ chat_rooms = <<>>
    /\ calls = [c \in Calls |-> IdleCall]
    /\ sent = {}
    /\ Undelivered
    /\ summarized = {}
    /\ fn_in = <<>>
    /\ fn_out = <<>>

StartSession(c) == \E uid \in {UA, UB} : websocket_endpoint(c, uid)

NextSessions ==
    \E c \in Calls :
        \/ StartSession(c)
        \/ StartNearby(c)
        \/ WebsocketSteps(c)
        \/ NearbySteps(c)

SpecSessions == InitSessions /\ [][NextSessions]_vars

(* ------------------- match queries over a profile pool ----------------- *)

UD == <<98, 97>>
Pool == Users \cup {UD}

\* the builder or nobody as 'a'; for each other user one of four profiles
\* or none
MatchPools ==
    {pool \in [Pool -> {<<>>} \cup {<<p>> : p \in ProfileCatalogue}] :
        pool[UA] \in {<<>>, <<ProfileBuilder>>}
          /\ \A u \in Pool \ {UA} : pool[u] # <<ProfileBuilder>>}

Reverse(s) == [i \in DOMAIN s |-> s[Len(s) + 1 - i]]

\* thresholds of a query, millionths
Thresholds == {0, 600000, 990000}

\* w_complementarity, w_focus, w_industry of a query, thousandths
WeightChoices ==
    {DefaultWeights,
     [complementarity |-> 1000, focus |-> 0, industry |-> 0],
     [complementarity |-> 0, focus |-> 0, industry |-> 0]}

InitMatches ==
    /\ uniqueIndex = FALSE
    /\ profiles \in MatchPools
    /\ connections = <<>>
    /\ chat_rooms = <<>>
    /\ next_id = 1
    /\ now = 0
    /\ calls = [c \in Calls |-> IdleCall]
    /\ sent = {}
    /\ Undelivered
    /\ summarized = {}
    /\ LET stored == sorted({u \in Pool : profiles[u] # <<>>})
       IN fn_in \in [uid : Pool, limit : 1..MaxLimit, threshold : Thresholds,
                     w : WeightChoices, order : {stored, Reverse(stored)}]
    /\ fn_out = <<>>

NextMatches == match_student

SpecMatches == InitMatches /\ [][NextMatches]_vars

(* ---------------- compute_match as a pure function --------------------- *)

\* a pair of profiles, both with vectors or both without, and the weights
InitScore ==
    /\ fn_in \in [query : VectorProfiles, cand : VectorProfiles,
                   weights : {DefaultWeights,
                              [complementarity |-> 1000, focus |-> 0, industry |-> 0]}]
                  \cup [query : SkillProfiles, cand : SkillProfiles,
                        weights : {DefaultWeights,
                                   [complementarity |-> 1000, focus |-> 0, industry |-> 0]}]
    /\ fn_out = <<>>
    /\ uniqueIndex = FALSE
    /\ profiles = [u \in Users |-> <<>>]
    /\ connections = <<>>
    /\ chat_rooms = <<>>
    /\ next_id = 1
    /\ now = 0
    /\ calls = [c \in Calls |-> IdleCall]
    /\ sent = {}
    /\ Undelivered
    /\ summarized = {}

apply_compute_match ==
    /\ fn_out = <<>>
    /\ fn_out' = <<compute_match(fn_in.query, vectorize_profile(fn_in.query),
                                 fn_in.cand, vectorize_profile(fn_in.cand),
                                 fn_in.weights)>>
    /\ UNCHANGED <<storeVars, now, calls, sent, failed, wireVars, summarized, fn_in>>

NextScore == apply_compute_match

SpecScore == InitScore /\ [][NextScore]_vars

(* --------------- the pairing key as a pure function -------------------- *)

UidStrings == UNION {[1..n -> UidChars] : n \in 0..MaxUidLen}

InitPairKey ==
    /\ fn_in \in UidStrings \X UidStrings
    /\ fn_out = <<>>
    /\ uniqueIndex = FALSE
    /\ profiles = [u \in Users |-> <<>>]
    /\ connections = <<>>
    /\ chat_rooms = <<>>
    /\ next_id = 1
    /\ now = 0
    /\ calls = [c \in Calls |-> IdleCall]
    /\ sent = {}
    /\ Undelivered
    /\ summarized = {}

apply_make_connection_id ==
    /\ fn_out = <<>>
    /\ fn_out' = <<make_connection_id(fn_in[1], fn_in[2])>>
    /\ UNCHANGED <<storeVars, now, calls, sent, failed, wireVars, summarized, fn_in>>

NextPairKey == apply_make_connection_id

SpecPairKey == InitPairKey /\ [][NextPairKey]_vars

(* ------- the room key as a pure function, and the rooms created -------- *)

apply_make_room_id ==
    /\ fn_in # <<>>
    /\ fn_out = <<>>
    /\ fn_out' = <<make_room_id(fn_in[1], fn_in[2])>>
    /\ UNCHANGED <<storeVars, now, calls, sent, failed, wireVars, summarized, fn_in>>

\* bodies of POST /chat/rooms: lists of none to three participant IDs
ParticipantLists ==
    {<<>>, <<UA>>, <<UA, UB>>, <<UB, UA>>, <<UB, UC>>, <<UA, UB, UC>>}

\* either a pair of strings for make_room_id, or a stored connection that
\* UA has or has not accepted, and requests that accept it or create rooms
InitRooms ==
    \/ InitPairKey
    \/ /\ uniqueIndex = FALSE
       /\ profiles \in StoredProfiles
       /\ now = 0
       /\ \E accepted \in BOOLEAN :
             connections = <<apply_set(ExistingConnection(SummariesFull),
                                       [uid1_accepted |-> accepted])>>
       /\ chat_rooms = <<>>
       /\ next_id = 2
       /\ calls = [c \in Calls |-> IdleCall]
       /\ sent = {}
       /\ Undelivered
       /\ summarized = {}
       /\ fn_in = <<>>
       /\ fn_out = <<>>

StartCreateRoom(c) ==
    \E participant_uids \in ParticipantLists : create_room(c, participant_uids)

StartRooms(c) ==
    /\ fn_in = <<>>
    /\ c <= MaxMixedCalls
    /\ \/ StartAccept(c)
       \/ StartCreateRoom(c)

NextRooms ==
    \/ apply_make_room_id
    \/ \E c \in Calls :
          \/ StartRooms(c)
          \/ AcceptSteps(c)
          \/ CreateRoomSteps(c)

SpecRooms == InitRooms /\ [][NextRooms]_vars

(* ------------------------------ claims --------------------------------- *)

PairId == make_connection_id(UA, UB)

RecordsOf(connection_id) ==
    {i \in DOMAIN connections : connections[i].connection_id = connection_id}

RoomsOf(room_id) ==
    {i \in DOMAIN chat_rooms : chat_rooms[i].room_id = room_id}

Proposals == {c \in Calls : calls[c].op = "create_connection"}
Accepts == {c \in Calls : calls[c].op = "accept"}
Nearbys == {c \in Calls : calls[c].op = "notify_nearby"}
Finished(c) == calls[c].pc = "done"
AllFinished == \A c \in Calls : Finished(c)

SentBy(c, type) == \E e \in sent : e.call = c /\ e.type = type
Senders(type) == {c \in Calls : SentBy(c, type)}

HighMatch ==
    \E i \in DOMAIN connections :
        connections[i].match_percentage >= MatchThreshold * 10

\* C1: once N concurrent proposals for UA and UB (either argument order) have
\* all returned, the store holds exactly one record with the pair's canonical
\* connection_id, and every proposal returned a connection with that ID.
C1_OneRecordPerPair ==
    AllFinished =>
        /\ Cardinality(RecordsOf(PairId)) = 1
        /\ \A c \in Proposals :
              /\ calls[c].status = 201
              /\ calls[c].connection # <<>>
              /\ calls[c].connection[1].connection_id = PairId

\* C2: with the store enforcing the unique key, a proposal that did not
\* create the record (it obtained the existing one) generates no summary and
\* sends no match_found event, and once all N proposals for a pair matching
\* at 60% or more have returned, summary generation and the match_found
\* broadcast have each happened exactly once.
C2_SideEffectsOnce ==
    uniqueIndex =>
        /\ \A c \in Proposals :
              ~calls[c].created => c \notin summarized /\ ~SentBy(c, "match_found")
        /\ (AllFinished /\ HighMatch) =>
              /\ Cardinality(summarized) = 1
              /\ Cardinality(Senders("match_found")) = 1

\* C3: when no accept is in flight and both participants have accepted,
\* exactly one chat room with the pair's canonical ID exists.
C3_ExactlyOneRoom ==
    (NoneInFlight /\ \E i \in RecordsOf(PairId) : BothAccepted(connections[i]))
        => Cardinality(RoomsOf(make_room_id(UA, UB))) = 1

AcceptedBy(c, uid) ==
    /\ c \in Accepts
    /\ Finished(c)
    /\ calls[c].status = 200
    /\ calls[c].body_uid1 = uid

\* C4: once an accept by uid1 and an accept by uid2 have both returned
\* successfully, whatever their interleaving, the stored record has both
\* acceptance flags true.
C4_NoLostUpdate ==
    \A ca \in Calls, cb \in Calls :
        (AcceptedBy(ca, UA) /\ AcceptedBy(cb, UB))
            => BothAccepted(find_one(connections, PairId)[1])

\* the two accepts ran concurrently: each read the record before the other's
\* flag was set, and both have returned
C4_Witness ==
    \E ca \in Calls, cb \in Calls :
        /\ AcceptedBy(ca, UA)
        /\ AcceptedBy(cb, UB)
        /\ ~calls[ca].found[1].uid2_accepted
        /\ ~calls[cb].found[1].uid1_accepted
        /\ BothAccepted(find_one(connections, PairId)[1])

\* C5: in every step of every handler, a stored record (identified by its
\* _id) whose acceptance flag is true still has that flag true afterwards.
C5_MonotonicAcceptance ==
    [][\A i \in DOMAIN connections : \A j \in DOMAIN connections' :
          connections[i]._id = connections'[j]._id =>
              /\ connections[i].uid1_accepted => connections'[j].uid1_accepted
              /\ connections[i].uid2_accepted => connections'[j].uid2_accepted]_vars

\* a proposal attached its summaries to a record whose flag an accept had
\* already set, and the flag is still set
C5_Witness ==
    \E p \in Proposals, a \in Accepts :
        /\ calls[p].created
        /\ Finished(p)
        /\ calls[p].status = 201
        /\ AcceptedBy(a, UA)
        /\ calls[a].found[1].uid1_summary = <<>>
        /\ find_one(connections, PairId)[1].uid1_summary # <<>>
        /\ find_one(connections, PairId)[1].uid1_accepted

Notified(c) == SentBy(c, "push_nearby") /\ SentBy(c, "reencounter")

\* C6: for a connection matching at 60% or more and nearby requests made one
\* after the other: a request arriving less than CooldownMinutes after the
\* arrival of an earlier request that notified sends nothing; a request
\* arriving when no nearby notification is recorded, or at least
\* CooldownMinutes after the recorded one, sends the pushes and the
\* reencounter event and leaves last_nearby_notified_at at or after its
\* arrival.
C6_CooldownSequential ==
    \A c2 \in Nearbys :
        (Finished(c2) /\ calls[c2].status = 200
           /\ calls[c2].connection[1].match_percentage >= MatchThreshold * 10) =>
            LET last == calls[c2].connection[1].last_nearby_notified_at
                stored == find_one(connections, PairId)[1].last_nearby_notified_at
            IN /\ (\E c1 \in calls[c2].preceded :
                      /\ Notified(c1)
                      /\ calls[c2].started_at - calls[c1].started_at < CooldownMinutes)
                    => ~Notified(c2)
               /\ (last = NoTime \/ calls[c2].started_at - last >= CooldownMinutes)
                    => /\ Notified(c2)
                       /\ stored # NoTime
                       /\ stored >= calls[c2].started_at

\* three requests in a row: the first notifies, the second arrives within the
\* hour and does not, the third arrives after the hour and notifies again
C6_Witness ==
    \E c1 \in Nearbys, c2 \in Nearbys, c3 \in Nearbys :
        /\ Finished(c1) /\ Finished(c2) /\ Finished(c3)
        /\ c1 \in calls[c2].preceded /\ c2 \in calls[c3].preceded
        /\ Notified(c1)
        /\ calls[c2].started_at - calls[c1].started_at < CooldownMinutes
        /\ ~Notified(c2)
        /\ calls[c3].started_at - calls[c3].connection[1].last_nearby_notified_at
              >= CooldownMinutes
        /\ Notified(c3)

Reversed(c1, c2) ==
    /\ calls[c2].body_uid1 = calls[c1].body_uid2
    /\ calls[c2].body_uid2 = calls[c1].body_uid1

\* C7: a proposal (B,A) that arrives after a proposal (A,B) has returned
\* successfully returns the same connection_id and the same match_percentage
\* and stores no record of its own.
C7_ProposeThenReverse ==
    \A c1 \in Proposals, c2 \in Proposals :
        (c1 \in calls[c2].preceded /\ calls[c1].status = 201
           /\ Reversed(c1, c2) /\ Finished(c2)) =>
            /\ calls[c2].status = 201
            /\ calls[c2].connection[1].connection_id
                  = calls[c1].connection[1].connection_id
            /\ calls[c2].connection[1].match_percentage
                  = calls[c1].connection[1].match_percentage
            /\ ~calls[c2].created

C7_Witness ==
    \E c1 \in Proposals, c2 \in Proposals :
        /\ c1 \in calls[c2].preceded
        /\ calls[c1].status = 201
        /\ calls[c1].created
        /\ Reversed(c1, c2)
        /\ Finished(c2)
        /\ calls[c2].status = 201
        /\ Cardinality(RecordsOf(PairId)) = 1

\* C8: the connection ID computed for (A,B) is the one make_connection_id
\* gives for (B,A).
C8_PairKeySymmetric ==
    fn_out # <<>> => fn_out[1] = make_connection_id(fn_in[2], fn_in[1])

\* the ID was computed for a pair given in descending order
C8_Witness ==
    /\ fn_out # <<>>
    /\ StrLess(fn_in[2], fn_in[1])
    /\ fn_out[1] = fn_in[2] \o <<Underscore>> \o fn_in[1]

\* C9: a proposal that arrives after an earlier proposal for the pair has
\* returned successfully generates no summary and sends no event and no push
\* notification.
C9_NoSideEffectsOnExisting ==
    \A c2 \in Proposals :
        (\E c1 \in calls[c2].preceded : c1 \in Proposals /\ calls[c1].status = 201)
            => /\ c2 \notin summarized
               /\ \A e \in sent : e.call # c2

C9_Witness ==
    \E c2 \in Proposals :
        /\ \E c1 \in calls[c2].preceded :
              c1 \in Proposals /\ calls[c1].status = 201 /\ SentBy(c1, "push_new_match")
        /\ Finished(c2)
        /\ calls[c2].status = 201
        /\ calls[c2].connection # <<>>
        /\ HighMatch

\* C10: a connection_complete event is sent only by an accept whose update
\* made both flags true for the first time.
C10_CompleteOnlyOnFirst ==
    \A c \in Accepts : SentBy(c, "connection_complete") => calls[c].completed

Participants(doc) == {doc.uid1, doc.uid2}

\* an accept that names a connection ID no record has, or a user who is
\* neither participant of the record found
Rejectable(call) ==
    \/ call.found = <<>>
    \/ call.body_uid1 \notin Participants(call.found[1])

\* C11: an accept naming a connection ID that no record has, or a user who is
\* neither uid1 nor uid2 of the record, returns 404; the step that handles it
\* leaves every connection record and the chat rooms as they were, and the
\* request sends no event and no push notification.
C11_AcceptNotFound ==
    /\ [](\A c \in Accepts :
            Rejectable(calls[c]) =>
                /\ Finished(c)
                /\ calls[c].status = 404
                /\ calls[c].room = <<>>
                /\ \A e \in sent : e.call # c)
    /\ [][\A c \in Calls :
            (calls[c].op = "none" /\ calls'[c].op = "accept" /\ Rejectable(calls'[c]))
                => /\ connections' = connections
                   /\ chat_rooms' = chat_rooms
                   /\ sent' = sent]_vars

\* one accept named an unknown connection ID, another was made by a user who
\* is not a participant of the stored record; both were turned away
C11_Witness ==
    \E c1 \in Accepts, c2 \in Accepts :
        /\ calls[c1].found = <<>>
        /\ calls[c1].status = 404
        /\ calls[c2].found # <<>>
        /\ calls[c2].body_uid1 = UC
        /\ calls[c2].status = 404
        /\ connections # <<>>

\* the fields of a record other than the acceptance flags and updated_at
FrameFields ==
    {"_id", "connection_id", "uid1", "uid2", "match_percentage", "uid1_summary",
     "uid2_summary", "notification_message", "created_at", "last_nearby_notified_at"}

\* the step in which request c performs its find_one_and_update and gets the
\* updated record back
AcceptUpdates(c) ==
    /\ Running(c, "accept", "find_one_and_update")
    /\ calls'[c].pc # "find_one_and_update"
    /\ calls'[c].connection # <<>>

\* C12: the update of an accept by the user stored as uid1 sets uid1_accepted
\* and leaves uid2_accepted, match_percentage, the summaries, the participant
\* IDs and every other field but updated_at as they were; an accept by the
\* user stored as uid2 does the same with the roles of the flags exchanged;
\* no other record changes.
C12_AcceptFrame ==
    [][\A c \in Calls :
          AcceptUpdates(c) =>
              LET i == FirstIndex(connections, calls[c].connection_id)
                  mine == IF calls[c].body_uid1 = connections[i].uid1
                          THEN "uid1_accepted" ELSE "uid2_accepted"
                  other == IF mine = "uid1_accepted"
                           THEN "uid2_accepted" ELSE "uid1_accepted"
              IN /\ DOMAIN connections' = DOMAIN connections
                 /\ connections'[i][mine] = TRUE
                 /\ connections'[i][other] = connections[i][other]
                 /\ \A f \in FrameFields : connections'[i][f] = connections[i][f]
                 /\ \A j \in DOMAIN connections :
                       j # i => connections'[j] = connections[j]]_vars

\* UB (stored as uid2) accepted first and got back a record with only
\* uid2_accepted set, then UA (stored as uid1) accepted; the summaries
\* attached at creation are still on the record
C12_Witness ==
    \E cb \in Accepts, ca \in Accepts :
        /\ AcceptedBy(cb, UB)
        /\ calls[cb].connection[1].uid2_accepted
        /\ ~calls[cb].connection[1].uid1_accepted
        /\ AcceptedBy(ca, UA)
        /\ BothAccepted(calls[ca].connection[1])
        /\ calls[ca].connection[1].uid1_summary = SummariesFull.uid1_summary
        /\ calls[ca].connection[1].match_percentage
              = calls[ca].found[1].match_percentage

\* request c's update has been applied to the record with this _id by the
\* user uid
AcceptApplied(c, oid, uid) ==
    /\ c \in Accepts
    /\ calls[c].body_uid1 = uid
    /\ calls[c].connection # <<>>
    /\ calls[c].connection[1]._id = oid

\* C13: a record enters the store with both acceptance flags false, and a
\* flag of a stored record is true only if an accept by the participant at
\* that position has been applied to that record.
C13_StartsProposed ==
    /\ [](\A i \in DOMAIN connections :
            LET doc == connections[i]
            IN /\ doc.uid1_accepted
                    => \E c \in Calls : AcceptApplied(c, doc._id, doc.uid1)
               /\ doc.uid2_accepted
                    => \E c \in Calls : AcceptApplied(c, doc._id, doc.uid2))
    /\ [][\A j \in DOMAIN connections' :
            (\A i \in DOMAIN connections : connections[i]._id # connections'[j]._id)
                => /\ ~connections'[j].uid1_accepted
                   /\ ~connections'[j].uid2_accepted]_vars

\* a proposal created the record, then UB accepted it: uid2_accepted is set,
\* uid1_accepted is still false
C13_Witness ==
    \E p \in Proposals, a \in Accepts, i \in DOMAIN connections :
        /\ calls[p].created
        /\ Finished(p)
        /\ AcceptedBy(a, UB)
        /\ AcceptApplied(a, connections[i]._id, UB)
        /\ calls[p].created_id = connections[i]._id
        /\ connections[i].uid2_accepted
        /\ ~connections[i].uid1_accepted

\* C14: a stored record keeps its match_percentage in every step of every
\* handler (accept, proposal, summary attachment, nearby notification, profile
\* update, deletion of other records), and a record created by a proposal
\* holds the percentage that proposal computed.
C14_MatchPercentageSnapshot ==
    /\ [](\A p \in Proposals : \A i \in DOMAIN connections :
            (calls[p].created /\ calls[p].created_id = connections[i]._id)
                => connections[i].match_percentage = calls[p].match_percentage)
    /\ [][\A i \in DOMAIN connections : \A j \in DOMAIN connections' :
            connections[i]._id = connections'[j]._id
                => connections'[j].match_percentage
                      = connections[i].match_percentage]_vars

\* a profile update has changed what the two stored profiles would score,
\* and the record still holds the percentage of its creation
C14_Witness ==
    \E c \in Calls, i \in DOMAIN connections :
        /\ calls[c].op = "edit_student"
        /\ Finished(c)
        /\ calls[c].status = 200
        /\ profiles[UA] # <<>>
        /\ profiles[UB] # <<>>
        /\ connections[i].match_percentage
              # MatchPercentage(profiles[UA][1], profiles[UB][1])
        /\ connections[i].match_percentage >= MatchThreshold * 10

EventsOf(c) == {e \in sent : e.call = c}

High(match_percentage) == match_percentage >= MatchThreshold * 10

\* C15: no proposal generates summaries or sends match_found for a match
\* below 60%; the proposal that created the record returns 201 having sent
\* the push notification to both participants, and it has generated
\* summaries and sent match_found to both participants exactly when the
\* match percentage is at least 60; below 60 the two pushes are all it sent.
C15_ThresholdBranch ==
    \A p \in Proposals :
        /\ (p \in summarized \/ SentBy(p, "match_found"))
              => High(calls[p].match_percentage)
        /\ (calls[p].created /\ Finished(p)) =>
              LET pair == {calls[p].uid1, calls[p].uid2}
                  high == High(calls[p].match_percentage)
              IN /\ calls[p].status = 201
                 /\ (p \in summarized) <=> high
                 /\ \A u \in pair : (Event(p, "match_found", u) \in sent) <=> high
                 /\ \A u \in pair : Event(p, "push_new_match", u) \in sent
                 /\ ~high => EventsOf(p) = {Event(p, "push_new_match", u) : u \in pair}

\* the record was created with a match of exactly 60.0%: summaries were
\* generated and match_found went to both participants
C15_Witness ==
    \E p \in Proposals :
        /\ calls[p].created
        /\ Finished(p)
        /\ calls[p].match_percentage = MatchThreshold * 10
        /\ p \in summarized
        /\ Event(p, "match_found", UA) \in sent
        /\ Event(p, "match_found", UB) \in sent
        /\ Event(p, "push_new_match", UA) \in sent

\* C16: a nearby request that finds a connection matching below 60% returns
\* at once having sent no push and no reencounter event, its step leaves the
\* connection records unchanged, and such a record never gets a
\* last_nearby_notified_at.
C16_NearbyBelowThreshold ==
    /\ [](/\ \A c \in Nearbys :
                (calls[c].connection # <<>>
                   /\ ~High(calls[c].connection[1].match_percentage))
                    => /\ Finished(c)
                       /\ calls[c].status = 200
                       /\ EventsOf(c) = {}
           /\ \A i \in DOMAIN connections :
                ~High(connections[i].match_percentage)
                    => connections[i].last_nearby_notified_at = NoTime)
    /\ [][\A c \in Calls :
            (calls[c].op = "none" /\ calls'[c].op = "notify_nearby"
               /\ calls'[c].connection # <<>>
               /\ ~High(calls'[c].connection[1].match_percentage))
                => connections' = connections /\ sent' = sent]_vars

\* a nearby request found the record created at 57.5% and did nothing
C16_Witness ==
    \E c \in Nearbys, p \in Proposals :
        /\ calls[p].created
        /\ SentBy(p, "push_new_match")
        /\ Finished(c)
        /\ calls[c].status = 200
        /\ calls[c].connection # <<>>
        /\ calls[c].connection[1].match_percentage = 575
        /\ EventsOf(c) = {}
        /\ find_one(connections, PairId)[1].last_nearby_notified_at = NoTime

ExactlyOneAccepted(doc) == doc.uid1_accepted # doc.uid2_accepted

\* C17: an accept whose updated record has exactly one flag true sends
\* connection_accepted and the "someone accepted" push to the other
\* participant of the record and nothing else; neither is ever addressed to
\* the user who made the accept.
C17_NotifyOnlyOther ==
    /\ \A e \in sent :
          e.type \in {"connection_accepted", "push_someone_accepted"}
              => /\ e.to # calls[e.call].body_uid1
                 /\ e.to \in Participants(calls[e.call].connection[1])
                 /\ ExactlyOneAccepted(calls[e.call].connection[1])
    /\ \A c \in Accepts :
          (Finished(c) /\ calls[c].status = 200
             /\ ExactlyOneAccepted(calls[c].connection[1]))
              => \E other \in Participants(calls[c].connection[1]) :
                    /\ other # calls[c].body_uid1
                    /\ EventsOf(c) = {Event(c, "connection_accepted", other),
                                       Event(c, "push_someone_accepted", other)}

\* UB accepted a record nobody had accepted: UA, and only UA, was told
C17_Witness ==
    \E c \in Accepts :
        /\ AcceptedBy(c, UB)
        /\ ExactlyOneAccepted(calls[c].connection[1])
        /\ EventsOf(c) = {Event(c, "connection_accepted", UA),
                           Event(c, "push_someone_accepted", UA)}

\* the record at position i is no longer stored after the step
Removed(i) ==
    \A j \in DOMAIN connections' : connections'[j]._id # connections[i]._id

\* request c, a deletion for a participant of doc, performs its delete_many
DeleteStepBy(c, ops, doc) ==
    /\ calls[c].op \in ops
    /\ calls[c].pc = "delete_connections"
    /\ calls'[c].pc = "done"
    /\ calls[c].body_uid1 \in Participants(doc)

\* C18 as amended: a stored record is removed only by the delete_many of a
\* DELETE /students/{uid} or DELETE /students/{uid}/data request whose uid
\* is one of the record's participants; no proposal, accept, nearby
\* notification or profile update removes a record.
C18_RemovedOnlyByParticipantDeletes ==
    [][\A i \in DOMAIN connections :
          Removed(i) =>
              \E c \in Calls :
                  DeleteStepBy(c, {"remove_student", "clear_student_data"},
                               connections[i])]_vars

\* C18 as stated: a stored record is removed only by a request that deletes
\* the profile of one of its participants, never while both participants'
\* profiles remain stored.
C18_RemovedOnlyWithProfile ==
    [][\A i \in DOMAIN connections :
          Removed(i) =>
              /\ \E c \in Calls : DeleteStepBy(c, {"remove_student"}, connections[i])
              /\ \/ profiles'[connections[i].uid1] = <<>>
                 \/ profiles'[connections[i].uid2] = <<>>]_vars

\* a data-clearing request has removed the pair's record (the only document
\* ever inserted) and both profiles are still stored
C18_Witness ==
    \E c \in Calls :
        /\ calls[c].op = "clear_student_data"
        /\ Finished(c)
        /\ calls[c].status = 204
        /\ next_id > 1
        /\ chat_rooms = <<>>
        /\ connections = <<>>
        /\ profiles[UA] # <<>>
        /\ profiles[UB] # <<>>

\* C19: once DELETE /students/{uid} has returned 204, no stored record has
\* that uid as uid1 or uid2, and get_connection on such a record's ID finds
\* nothing.
C19_NoConnectionAfterDeletion ==
    \A c \in Calls :
        (calls[c].op = "remove_student" /\ Finished(c) /\ calls[c].status = 204) =>
            /\ \A i \in DOMAIN connections :
                  calls[c].body_uid1 \notin Participants(connections[i])
            /\ \A other \in Users :
                  get_connection(make_connection_id(calls[c].body_uid1, other)) = <<>>

\* C20: a proposal whose pre-check found no record and for which uid1 or uid2
\* had no stored profile when it arrived is at its profile reads or has
\* returned 404; it has stored no record, generated no summary and sent no
\* event and no push notification.
C20_ProposeMissingProfile ==
    \A p \in Proposals :
        (calls[p].found = <<>>
           /\ ~({calls[p].uid1, calls[p].uid2} \subseteq calls[p].stored_at_start)) =>
            /\ \/ calls[p].pc \in {"get_student1", "get_student2"}
               \/ Finished(p) /\ calls[p].status = 404
            /\ ~calls[p].created
            /\ p \notin summarized
            /\ EventsOf(p) = {}

\* UB's profile had been deleted when UA proposed the pair: 404, nothing
\* stored, nothing sent
C20_Witness ==
    \E p \in Proposals, d \in Calls :
        /\ calls[d].op = "remove_student"
        /\ calls[d].body_uid1 = UB
        /\ d \in calls[p].preceded
        /\ calls[p].found = <<>>
        /\ UA \in calls[p].stored_at_start
        /\ UB \notin calls[p].stored_at_start
        /\ Finished(p)
        /\ calls[p].status = 404
        /\ connections = <<>>
        /\ sent = {}
    /\ Undelivered

NullSummaries(doc) ==
    /\ doc.uid1_summary = <<>>
    /\ doc.uid2_summary = <<>>
    /\ doc.notification_message = <<>>

\* C21: a proposal that created the record and whose summary generation
\* returned all-null returns 201 with the connection, its summaries null;
\* the record it inserted is stored; the match is at least 60% and the
\* request sent match_found and the push notification to both participants.
C21_NullSummariesStillCreate ==
    \A p \in Proposals :
        (calls[p].created /\ Finished(p) /\ calls[p].summaries = <<SummariesEmpty>>) =>
            /\ calls[p].status = 201
            /\ calls[p].connection # <<>>
            /\ calls[p].connection[1].connection_id = calls[p].connection_id
            /\ NullSummaries(calls[p].connection[1])
            /\ \E i \in DOMAIN connections : connections[i]._id = calls[p].created_id
            /\ High(calls[p].match_percentage)
            /\ \A u \in {calls[p].uid1, calls[p].uid2} :
                  /\ Event(p, "match_found", u) \in sent
                  /\ Event(p, "push_new_match", u) \in sent

\* summary generation failed for the creating proposal, which returned 201;
\* the stored record has null summaries
C21_Witness ==
    \E p \in Proposals :
        /\ calls[p].created
        /\ Finished(p)
        /\ p \in summarized
        /\ calls[p].summaries = <<SummariesEmpty>>
        /\ calls[p].status = 201
        /\ \E i \in DOMAIN connections :
              /\ connections[i]._id = calls[p].created_id
              /\ NullSummaries(connections[i])
        /\ Event(p, "match_found", UB) \in sent

FailedBy(c) == {e \in failed : e.call = c}

\* the state change that led request c to its sends is still in the store
StateChangeKept(c) ==
    LET stored == find_one(connections, calls[c].connection_id)
    IN /\ c \in Proposals =>
            \E i \in DOMAIN connections : connections[i]._id = calls[c].created_id
       /\ c \in Accepts => stored # <<>> /\ stored[1][calls[c].field]
       /\ c \in Nearbys =>
            stored # <<>> /\ stored[1].last_nearby_notified_at = calls[c].started_at

\* C22: a request one of whose pushes or real-time sends failed returns its
\* success status (201 for a proposal, 200 for an accept or a nearby
\* request) with the record it inserted, the flag it set or the timestamp
\* it wrote still stored, and no step in which a send fails changes the
\* connection records or the chat rooms.
C22_FailedSendNotSurfaced ==
    /\ [](\A c \in Calls :
            (Finished(c) /\ FailedBy(c) # {}) =>
                /\ calls[c].status = IF c \in Proposals THEN 201 ELSE 200
                /\ StateChangeKept(c))
    /\ [][failed' # failed =>
            connections' = connections /\ chat_rooms' = chat_rooms]_vars

Edits == {c \in Calls : calls[c].op = "edit_student"}

\* C23: once every profile update has returned, the embedding bundle of each
\* stored profile is the one generated from the skills and the project the
\* profile now stores.
C23_EmbeddingsNeverStale ==
    (\A c \in Edits : Finished(c)) =>
        \A u \in Users :
            (profiles[u] # <<>> /\ profiles[u][1].rag # <<>>) =>
                profiles[u][1].rag[1].indexed =
                    [skills |-> profiles[u][1].skills, project |-> profiles[u][1].project]

\* the match query of fn_in, once answered
Answered == fn_out # <<>>
Served == Answered /\ fn_out[1].status = 200
Ranked == fn_out[1].found[1].ranked
RankedUids == {Ranked[i].uid : i \in DOMAIN Ranked}
OtherStored == {u \in DOMAIN profiles : profiles[u] # <<>> /\ u # fn_in.uid}
ScoreOf(u) ==
    compute_match(profiles[fn_in.uid][1], vectorize_profile(profiles[fn_in.uid][1]),
                  profiles[u][1], vectorize_profile(profiles[u][1]),
                  normalize(fn_in.w)).score
Passing == {u \in OtherStored : ScoreOf(u) >= fn_in.threshold}

\* C24: the candidate count find_matches returns, and the response carries,
\* is the number of stored profiles other than the query's, whatever the
\* threshold and the limit.
C24_TotalCandidates ==
    Served =>
        /\ fn_out[1].found[1].total_candidates = Cardinality(OtherStored)
        /\ fn_out[1].body[1].total_candidates = Cardinality(OtherStored)

\* the threshold 0.99 removed each of three candidates: the list is empty,
\* the count is 3
C24_Witness ==
    /\ Served
    /\ fn_in.threshold = 990000
    /\ Ranked = <<>>
    /\ fn_out[1].body[1].matches = <<>>
    /\ Cardinality(OtherStored) = 3
    /\ fn_out[1].found[1].total_candidates = 3

\* C25: every entry of the ranked list is a stored profile other than the
\* query's with its own score, which is at least the threshold; no profile
\* appears twice; a candidate whose score equals the threshold is in the
\* list unless the limit cut the list.
C25_RankedPassThreshold ==
    Served =>
        /\ \A i \in DOMAIN Ranked :
              /\ Ranked[i].uid # fn_in.uid
              /\ Ranked[i].uid \in OtherStored
              /\ Ranked[i].ms.score = ScoreOf(Ranked[i].uid)
              /\ Ranked[i].ms.score >= fn_in.threshold
        /\ \A i, j \in DOMAIN Ranked : Ranked[i].uid = Ranked[j].uid => i = j
        /\ \A u \in OtherStored :
              (ScoreOf(u) = fn_in.threshold /\ Len(Ranked) < fn_in.limit)
                  => u \in RankedUids

\* a candidate scoring exactly the threshold 0.6 is in the list
C25_Witness ==
    /\ Served
    /\ fn_in.threshold = 600000
    /\ \E i \in DOMAIN Ranked : Ranked[i].ms.score = 600000
    /\ \E u \in OtherStored : u \notin RankedUids /\ ScoreOf(u) < 600000

\* C26: the ranked list is in non-increasing order of score, its length is
\* the smaller of the limit and the number of candidates with a score of at
\* least the threshold, and no such candidate left out has a higher score
\* than one in the list.
C26_RankedOrderAndLimit ==
    Served =>
        /\ \A i, j \in DOMAIN Ranked :
              i < j => Ranked[i].ms.score >= Ranked[j].ms.score
        /\ Len(Ranked) = IF fn_in.limit < Cardinality(Passing)
                         THEN fn_in.limit ELSE Cardinality(Passing)
        /\ \A u \in Passing \ RankedUids :
              \A i \in DOMAIN Ranked : ScoreOf(u) <= Ranked[i].ms.score

\* three candidates pass, the natural order has the lowest score first, the
\* limit 2 cuts it off
C26_Witness ==
    /\ Served
    /\ fn_in.limit = 2
    /\ Cardinality(Passing) = 3
    /\ Len(Ranked) = 2
    /\ Ranked[1].ms.score > Ranked[2].ms.score
    /\ \E u \in Passing \ RankedUids :
          /\ ScoreOf(u) < Ranked[2].ms.score
          /\ u = Head(SelectSeq(fn_in.order, LAMBDA v : v # fn_in.uid))

\* C27: for a query uid without a stored profile find_matches returns no
\* query profile, the count 0 and the empty list, and the endpoint answers
\* 404 without a body.
C27_AbsentQueryNotFound ==
    (Answered /\ profiles[fn_in.uid] = <<>> /\ fn_out[1].status # 400) =>
        /\ fn_out[1].status = 404
        /\ fn_out[1].found =
              <<[query_profile |-> <<>>, total_candidates |-> 0, ranked |-> <<>>]>>
        /\ fn_out[1].body = <<>>

\* the query uid has no profile while three other profiles are stored
C27_Witness ==
    /\ Answered
    /\ profiles[fn_in.uid] = <<>>
    /\ Cardinality(OtherStored) = 3
    /\ fn_out[1].status = 404
    /\ fn_out[1].found[1].query_profile = <<>>

\* the compared pair and its result
Scored == fn_out # <<>>
QueryVecs == vectorize_profile(fn_in.query)
CandVecs == vectorize_profile(fn_in.cand)
SwappedMatch ==
    compute_match(fn_in.cand, CandVecs, fn_in.query, QueryVecs, fn_in.weights)

\* both vectors of one comparison are numeric embeddings of one dimension
Comparable(need, have) ==
    /\ need.kind = "num" /\ have.kind = "num"
    /\ Len(need.items) > 0
    /\ Len(need.items) = Len(have.items)

\* one directional comparison decided on its own
Directional(need, have, need_names, have_names) ==
    IF Comparable(need, have)
    THEN _cosine_sim(need.items, have.items)
    ELSE _jaccard_sim(need_names, have_names)

\* C28: each directional comparison of compute_match is the cosine of its
\* two vectors when both are numeric, present and of one length, and
\* otherwise the Jaccard similarity of the normalized needed names and
\* possessed names of that direction.
C28_FallbackPerComparison ==
    Scored =>
        /\ fn_out[1].help_they_give_you =
              Directional(QueryVecs.needed_vec, CandVecs.possessed_vec,
                          QueryVecs.needed_names, CandVecs.possessed_names)
        /\ fn_out[1].help_you_give_them =
              Directional(CandVecs.needed_vec, QueryVecs.possessed_vec,
                          CandVecs.needed_names, QueryVecs.possessed_names)

\* C29: matched_skills is the ascending list, without repetition, of the
\* names the query needs and the candidate possesses, skills_you_offer that
\* of the names the candidate needs and the query possesses, a name being
\* the entered name trimmed and lower-cased.
C29_SkillIntersections ==
    Scored =>
        LET names(list) == {lower(strip(list[i])) : i \in DOMAIN list}
            ascending(list) ==
                \A i, j \in DOMAIN list : i < j => StrLess(list[i], list[j])
            matched == fn_out[1].matched_skills
            offered == fn_out[1].skills_you_offer
        IN /\ Range(matched) = names(fn_in.query.skills.needed)
                                  \cap names(fn_in.cand.skills.possessed)
           /\ Range(offered) = names(fn_in.cand.skills.needed)
                                  \cap names(fn_in.query.skills.possessed)
           /\ ascending(matched)
           /\ ascending(offered)

\* the query needs " react " and Figma and has Python, the candidate has
\* React and Figma and needs Python: [figma, react] and [python]
C29_Witness ==
    /\ Scored
    /\ Padded(React) \in Range(fn_in.query.skills.needed)
    /\ React \in Range(fn_in.cand.skills.possessed)
    /\ fn_out[1].matched_skills = <<lower(Figma), lower(React)>>
    /\ fn_out[1].skills_you_offer = <<lower(Python)>>

\* C30: help_they_give_you of compute_match(A, B) is help_you_give_them of
\* compute_match(B, A) and conversely, and both calls give the same
\* complementarity, under the same weights.
C30_DirectionsMirror ==
    Scored =>
        /\ fn_out[1].help_they_give_you = SwappedMatch.help_you_give_them
        /\ fn_out[1].help_you_give_them = SwappedMatch.help_they_give_you
        /\ fn_out[1].complementarity = SwappedMatch.complementarity

\* two embedded profiles whose directional comparisons differ: 0.8 one
\* way, 0 the other, complementarity 0.4 in both orders
C30_Witness ==
    /\ Scored
    /\ fn_in.query = ProfileEmbedded
    /\ fn_in.cand = ProfileEmbeddedHalf
    /\ fn_out[1].help_they_give_you = 800
    /\ fn_out[1].help_you_give_them = 0
    /\ fn_out[1].complementarity = 400
    /\ SwappedMatch.help_they_give_you = 0
    /\ SwappedMatch.help_you_give_them = 800

\* C31: for weights that are non-negative and sum to 1, the total score of
\* compute_match is at least 0 and at most 1 for every pair of profiles.
C31_ScoreInUnitInterval ==
    (Scored /\ fn_in.weights.complementarity >= 0 /\ fn_in.weights.focus >= 0
            /\ fn_in.weights.industry >= 0
            /\ fn_in.weights.complementarity + fn_in.weights.focus
                  + fn_in.weights.industry = 1000)
        => /\ fn_out[1].score >= 0
           /\ fn_out[1].score <= 1000000

\* nothing entered: no skills, no focus tags, no industry tags
NothingEntered(profile) ==
    /\ profile.skills.possessed = <<>>
    /\ profile.skills.needed = <<>>
    /\ profile.focus_areas = {}
    /\ Industries(profile) = {}

AllZero(ms) ==
    /\ ms.score = 0
    /\ ms.complementarity = 0
    /\ ms.help_they_give_you = 0
    /\ ms.help_you_give_them = 0
    /\ ms.focus_overlap = 0
    /\ ms.industry_overlap = 0

\* a vector that is empty or has no magnitude
NoMagnitude(items) == \A i \in DOMAIN items : items[i] = 0

\* every cosine comparison compute_match made with an empty or
\* zero-magnitude vector on a side gave 0
ZeroCosines ==
    /\ (NoMagnitude(QueryVecs.focus_vec) \/ NoMagnitude(CandVecs.focus_vec))
          => fn_out[1].focus_overlap = 0
    /\ use_semantic(QueryVecs, CandVecs) =>
          /\ (NoMagnitude(QueryVecs.needed_vec.items)
                 \/ NoMagnitude(CandVecs.possessed_vec.items))
                => fn_out[1].help_they_give_you = 0
          /\ (NoMagnitude(CandVecs.needed_vec.items)
                 \/ NoMagnitude(QueryVecs.possessed_vec.items))
                => fn_out[1].help_you_give_them = 0

\* C32 as stated: compute_match of two profiles with no possessed skills, no
\* needed skills, no focus tags and no industry tags returns a total score
\* and sub-scores of 0, and a cosine comparison with an empty or
\* zero-magnitude vector on either side gives 0.
C32_EmptyProfilesScoreZero ==
    Scored =>
        /\ (NothingEntered(fn_in.query) /\ NothingEntered(fn_in.cand))
              => AllZero(fn_out[1])
        /\ ZeroCosines

\* the profile has no embedding vectors
NoVectors(profile) ==
    /\ vectorize_profile(profile).possessed_vec.items = <<>>
    /\ vectorize_profile(profile).needed_vec.items = <<>>

\* C32, amended: compute_match of two profiles with no possessed skills, no
\* needed skills, no focus tags, no industry tags and no embedding vectors
\* returns a total score and sub-scores of 0, and a cosine comparison with
\* an empty or zero-magnitude vector on either side gives 0.
C32_EmptyUnindexedScoreZero ==
    Scored =>
        /\ (NothingEntered(fn_in.query) /\ NothingEntered(fn_in.cand)
               /\ NoVectors(fn_in.query) /\ NoVectors(fn_in.cand))
              => AllZero(fn_out[1])
        /\ ZeroCosines

\* two profiles with nothing entered and no vectors were scored 0
C32_Witness ==
    /\ Scored
    /\ fn_in.query = ProfileEmpty
    /\ fn_in.cand = ProfileEmpty
    /\ AllZero(fn_out[1])

\* C33: of the nearby requests for one connection matching at 60% or more,
\* no two that arrive less than CooldownMinutes apart both send the nearby
\* pushes and the reencounter events, whether they run one after the other
\* or concurrently.
C33_CooldownConcurrent ==
    \A c1 \in Nearbys, c2 \in Nearbys :
        (c1 # c2 /\ calls[c1].connection_id = calls[c2].connection_id
           /\ Notified(c1) /\ Notified(c2))
            => \/ calls[c2].started_at - calls[c1].started_at >= CooldownMinutes
               \/ calls[c1].started_at - calls[c2].started_at >= CooldownMinutes

\* C34: when no request is in flight, both participants of every stored
\* connection have stored profiles, however the proposals and the profile
\* deletions before were interleaved.
C34_ParticipantsStored ==
    NoneInFlight =>
        \A i \in DOMAIN connections :
            /\ profiles[connections[i].uid1] # <<>>
            /\ profiles[connections[i].uid2] # <<>>

Sessions == {c \in Calls : calls[c].op = "websocket"}

\* the handler of session c leaves its receive loop in this step
Disconnects(c) ==
    /\ c \in Sessions
    /\ calls[c].pc = "receive"
    /\ calls'[c].pc = "done"

\* C35: when the handler of an older session of a user ends while the
\* registry holds a newer session of that user, the registry still holds
\* the newer session afterwards, and a send to the user that does not fail
\* returns True.
C35_OlderDisconnectKeepsNewer ==
    [][\A c \in Calls :
          (Disconnects(c)
             /\ active_connections[calls[c].body_uid1] # <<>>
             /\ active_connections[calls[c].body_uid1] # <<c>>)
            => /\ active_connections'[calls[c].body_uid1]
                     = active_connections[calls[c].body_uid1]
               /\ send_to_user(active_connections', calls[c].body_uid1, FALSE)]_vars

\* the real-time events attempted in this step
NewSends == {e \in sent' \ sent : e.type = "reencounter"}

\* C36: a real-time send to a user without a registered session returns
\* False and leaves the registry and the stored data as they were; a send
\* that fails on a registered session removes the user's session and
\* returns False; a send that succeeds leaves the session registered; and a
\* broadcast attempts every recipient, whichever of the sends failed.
C36_SendToUser ==
    [][/\ \A e \in NewSends :
             /\ active_connections[e.to] = <<>>
                   => e \in failed' /\ active_connections'[e.to] = <<>>
             /\ (active_connections[e.to] # <<>> /\ e \in failed')
                   => active_connections'[e.to] = <<>>
             /\ e \notin failed'
                   => /\ active_connections[e.to] # <<>>
                      /\ active_connections'[e.to] = active_connections[e.to]
             /\ {f.to : f \in {g \in NewSends : g.call = e.call}}
                   = Participants(calls[e.call].connection[1])
       /\ NewSends # {} =>
             /\ storeVars' = storeVars
             /\ \A u \in Users \ {e.to : e \in NewSends} :
                   active_connections'[u] = active_connections[u]]_vars

\* UA and UB each have one session, both still open; a broadcast's send to
\* UA failed and removed UA's session, its send to UB was delivered
C36_Witness ==
    \E c \in Nearbys :
        /\ Event(c, "reencounter", UA) \in failed
        /\ Event(c, "reencounter", UB) \in sent \ failed
        /\ \A u \in {UA, UB} :
              /\ Cardinality({s \in Sessions : calls[s].body_uid1 = u}) = 1
              /\ \A s \in Sessions : calls[s].pc = "receive"
        /\ active_connections[UA] = <<>>
        /\ active_connections[UB] # <<>>

\* C37: every stored connection has two different participants, uid1
\* before uid2 in string order, and the connection_id make_connection_id
\* gives for them; a proposal naming the same user twice stores no record,
\* generates no summary and sends no event and no push notification.
C37_DistinctParticipants ==
    /\ \A i \in DOMAIN connections :
          /\ connections[i].uid1 # connections[i].uid2
          /\ StrLess(connections[i].uid1, connections[i].uid2)
          /\ connections[i].connection_id
                = make_connection_id(connections[i].uid1, connections[i].uid2)
    /\ \A p \in Proposals :
          calls[p].body_uid1 = calls[p].body_uid2
            => /\ ~calls[p].created
               /\ EventsOf(p) = {}
               /\ p \notin summarized

\* request c is an accept by uid of the pair's connection, which was stored
\* when the request arrived
AcceptIssued(c, uid) ==
    /\ c \in Accepts
    /\ calls[c].body_uid1 = uid
    /\ calls[c].connection_id = PairId
    /\ calls[c].found # <<>>

Complete ==
    /\ \E i \in RecordsOf(PairId) : BothAccepted(connections[i])
    /\ RoomsOf(make_room_id(UA, UB)) # {}
    /\ Senders("connection_complete") # {}

\* C38: once each participant of a stored connection has issued an accept,
\* and accepts run to completion, the record eventually has both flags
\* true, a chat room of the pair exists and some accept has sent
\* connection_complete.
C38_AcceptsComplete ==
    (\E ca \in Calls, cb \in Calls : AcceptIssued(ca, UA) /\ AcceptIssued(cb, UB))
        ~> Complete

\* UA's and UB's accepts have both returned and the connection is complete
C38_Witness ==
    /\ \E ca \in Calls, cb \in Calls :
          /\ AcceptIssued(ca, UA) /\ Finished(ca)
          /\ AcceptIssued(cb, UB) /\ Finished(cb)
    /\ Complete

RoomRequests == {c \in Calls : calls[c].op = "create_room"}

\* C39: make_room_id gives for any two IDs what make_connection_id gives;
\* the room an accept got or created on completion has the connection's
\* connection_id as its room_id; and a request to create a room naming
\* other than exactly two participants returns 400 and creates no room,
\* so that every room has two participants and the ID derived from them.
C39_RoomKeyIsConnectionKey ==
    /\ (fn_in # <<>> /\ fn_out # <<>>)
          => fn_out[1] = make_connection_id(fn_in[1], fn_in[2])
    /\ \A c \in Accepts :
          calls[c].room # <<>>
            => calls[c].room[1].room_id = calls[c].connection[1].connection_id
    /\ \A c \in RoomRequests :
          Len(calls[c].participant_uids) # 2
            => /\ Finished(c)
               /\ calls[c].status = 400
               /\ calls[c].room = <<>>
               /\ ~calls[c].created
    /\ \A i \in DOMAIN chat_rooms :
          /\ Len(chat_rooms[i].participants) = 2
          /\ chat_rooms[i].room_id =
                make_connection_id(chat_rooms[i].participants[1],
                                   chat_rooms[i].participants[2])

\* the connection was completed and its room has the connection's ID; a
\* request naming three participants was refused
C39_Witness ==
    /\ \E c \in Accepts :
          /\ Finished(c)
          /\ calls[c].room # <<>>
          /\ calls[c].room[1].room_id = PairId
          /\ chat_rooms # <<>>
    /\ \E c \in RoomRequests :
          /\ Len(calls[c].participant_uids) = 3
          /\ calls[c].status = 400

====
